---- MODULE Spec2Model ----
(***************************************************************************)
(* Model of gochecks (github.com/dmabry/gochecks).                         *)
(*                                                                         *)
(* Spec: one run of cmd/check_interface_usage: two timed SNMP samples of   *)
(* the interface counters, a delay between them, the rate computation and  *)
(* the threshold evaluation of DetermineInterfaceUsage, and the single     *)
(* verdict handed to gomonitor.                                            *)
(* SpecScale: convertToScale on its own.                                   *)
(* SpecInterfaces: one run of cmd/check_interfaces: the walks of ifTable   *)
(* and ifXTable, the assembly of the records turn by turn of the range     *)
(* over each walk result, and the message.                                 *)
(* SpecClient: the calls of Client.GetValue and Client.Walk a check makes, *)
(* statement by statement.                                                 *)
(* SpecInventory: one run of cmd/device_inventory, collector by collector. *)
(* SpecSysDescr: one run of cmd/check_sysdescr: the request of sysDescr,   *)
(* the comparison with the pattern and the verdict.                        *)
(* SpecBgp: one run of cmd/check_bgp_peers: the fetch of the peer indices, *)
(* the status query of each peer and the verdict on the mismatches.        *)
(*                                                                         *)
(* Time is counted in ticks, TicksPerSecond ticks to the second, so that   *)
(* an elapsed period can be a fraction of a second.  Machine words are     *)
(* scaled down: a Go uint / uint64 (64 bits on the amd64 and arm64 build   *)
(* targets) is UintBits wide and an SNMP Counter32 / Gauge32 is            *)
(* Counter32Bits wide, Counter32Bits < UintBits, arithmetic being modular  *)
(* in the width of the Go type that holds the value.  A Go string that is  *)
(* split, joined, parsed or formatted is the sequence of its characters.   *)
(***************************************************************************)
EXTENDS Integers, Sequences, FiniteSets, TLC

\* ------------------------------------------------------------------ bounds
TicksPerSecond == 2
MaxLatencyTicks == 2
UintBits == 30
Counter32Bits == 17

\* Half of the modulus of a Go uint / uint64 and the largest value of one;
\* the modulus itself, 2 ^ UintBits, is written UintHalf + UintHalf.
UintHalf == 2 ^ (UintBits - 1)
UintMax == (UintHalf - 1) + UintHalf
Counter32Modulus == 2 ^ Counter32Bits

\* ------------------------------------------------------------------ inputs
\* -delay, in seconds
DelayValues == {0, 10}
\* -warnIn and -warnOut, -critIn and -critOut
WarnValues == {0, 5}
CritValues == {0, 50}
\* octet counters a device answers with
InOctetValues == {1000, 11000}
OutOctetValues == {2000, 12000, 102000}
HCInOctetValues == {1000, 11000}
HCOutOctetValues == {2000, 12000}
IfNames == {"eth0"}
\* ifSpeed (bits per second) and ifHighSpeed (Mbit per second)
IfSpeedValues == {100000000}
IfHighSpeedValues == {100}

\* gomonitor states
OK == "OK"
Warning == "WARNING"
Critical == "CRITICAL"

\* ------------------------------------------------------- wire values (gosnmp)
\* The dynamic Go type gosnmp gives a decoded variable: []uint8 for an
\* OctetString, uint for Counter32 / Gauge32, uint64 for Counter64, int for
\* Integer and nil for Null / NoSuchObject / NoSuchInstance.
Bytes(v) == [type |-> "bytes", val |-> v]
UintV(v) == [type |-> "uint", val |-> v]
Uint64V(v) == [type |-> "uint64", val |-> v]
IntV(v) == [type |-> "int", val |-> v]
NilV == [type |-> "nil", val |-> 0]
\* uint32 for TimeTicks
Uint32V(v) == [type |-> "uint32", val |-> v]

\* Conversion of a Go int to uint64 (two's complement reinterpretation).
ToUint64(x) == IF x >= 0 THEN x ELSE (x + UintHalf) + UintHalf

\* Unsigned subtraction of a Go uint / uint64, and its multiplication by a
\* power of two b: (a * b) modulo 2 ^ UintBits.
USub(a, b) == IF a >= b THEN a - b ELSE ((a - b) + UintHalf) + UintHalf
UMul(a, b) == (a % ((UintHalf \div b) * 2)) * b

\* ------------------------------------------------------------ convertToScale
\* convertToScale(value uint64) (out uint64, unit string): the argument is
\* multiplied by 8 in uint64 arithmetic and divided down by 1000 per unit.
convertToScale_InclusiveBoundary(value) ==
    LET bps == UMul(value, 8)
        kbps == bps \div 1000
        mbps == kbps \div 1000
        gbps == mbps \div 1000
    IN  IF bps <= 1000 THEN <<bps, "bps">>
        ELSE IF kbps <= 1000 THEN <<kbps, "Kbps">>
        ELSE IF mbps <= 1000 THEN <<mbps, "Mbps">>
        ELSE <<gbps, "Gbps">>

convertToScale(value) ==
    LET bps == UMul(value, 8)
        kbps == bps \div 1000
        mbps == kbps \div 1000
        gbps == mbps \div 1000
    IN  IF bps < 1000 THEN <<bps, "bps">>
        ELSE IF kbps < 1000 THEN <<kbps, "Kbps">>
        ELSE IF mbps < 1000 THEN <<mbps, "Mbps">>
        ELSE <<gbps, "Gbps">>

\* ------------------------------------------------------- GetInterfaceMetrics
\* The answer of snmpClient.GetValue(usageOIDs): a transport error, or a
\* packet whose Variables hold one decoded value per answered OID.
TransportError == [err |-> TRUE, Variables |-> <<>>]

Packet(name, in, out, hcIn, hcOut, speed, highSpeed) ==
    [err |-> FALSE,
     Variables |-> <<Bytes(name), UintV(in), UintV(out), Uint64V(hcIn),
                     Uint64V(hcOut), UintV(speed), UintV(highSpeed)>>]

ValidResponses ==
    {Packet(n, i, o, hi, ho, sp, hs) :
        n \in IfNames, i \in InOctetValues, o \in OutOctetValues,
        hi \in HCInOctetValues, ho \in HCOutOctetValues,
        sp \in IfSpeedValues, hs \in IfHighSpeedValues}

BasePacket == CHOOSE r \in ValidResponses : TRUE

\* One variable of the packet is null (NoSuchInstance) or of another type.
MistypedResponses ==
    {[BasePacket EXCEPT !.Variables[k] = bad] :
        k \in 1..7, bad \in {NilV, IntV(7)}}

\* The packet carries fewer variables than were requested.
ShortResponses ==
    {[BasePacket EXCEPT !.Variables = SubSeq(BasePacket.Variables, 1, n)] :
        n \in 0..6}

Responses ==
    {TransportError} \cup ValidResponses \cup MistypedResponses
        \cup ShortResponses

\* Go type each field of the struct literal asserts, by position in
\* usageOIDs (name, in, out, HC in, HC out, speed, high speed).
AssertedType ==
    <<"bytes", "uint", "uint", "uint64", "uint64", "uint", "uint">>

\* An index expression or type assertion of lines 105-111 that panics.
AssertionPanics(vars, k) ==
    \/ Len(vars) < k
    \/ vars[k].type # AssertedType[k]

\* GetInterfaceMetrics(snmpClient, index): (metrics, nil), (nil, err), or a
\* run-time panic.  latency is the duration GetValue measured and now the
\* reading of time.Now() at line 113.
GetInterfaceMetrics(resp, latency, now) ==
    LET vars == resp.Variables IN
    IF resp.err THEN [kind |-> "error", metrics |-> <<>>]
    ELSE IF Len(vars) < 1 THEN [kind |-> "panic", metrics |-> <<>>]
    ELSE IF vars[1].type = "nil" THEN [kind |-> "error", metrics |-> <<>>]
    ELSE IF \E k \in 1..7 : AssertionPanics(vars, k)
         THEN [kind |-> "panic", metrics |-> <<>>]
    ELSE [kind |-> "ok",
          metrics |-> <<[Name |-> vars[1].val,
                         In |-> vars[2].val,
                         Out |-> vars[3].val,
                         HCIn |-> vars[4].val,
                         HCOut |-> vars[5].val,
                         Speed |-> vars[6].val,
                         HighSpeed |-> vars[7].val,
                         Latency |-> latency,
                         Timestamp |-> now]>>]

\* --------------------------------------------------- DetermineInterfaceUsage
\* uint(period), period being periodDiff.Seconds(): the float64 number of
\* seconds is truncated to a whole number.  ticks is never negative here,
\* both timestamps being monotonic readings of time.Now().
UintPeriod(ticks) == ticks \div TicksPerSecond

\* second.X - first.X on the uint / uint64 fields of InterfaceMetrics.
CounterDelta(firstValue, secondValue) == USub(secondValue, firstValue)

\* The locals in, out, hcIn, hcOut of lines 149-152; <<>> when the integer
\* division panics on a zero divisor.
CalcRates(first, second) ==
    LET period == UintPeriod(second.Timestamp - first.Timestamp) IN
    IF period = 0 THEN <<>>
    ELSE <<[in |-> CounterDelta(first.In, second.In) \div period,
            out |-> CounterDelta(first.Out, second.Out) \div period,
            hcIn |-> CounterDelta(first.HCIn, second.HCIn) \div period,
            hcOut |-> CounterDelta(first.HCOut, second.HCOut) \div period]>>

\* The chain with the inbound warning comparison made before the inbound
\* critical one.
ThresholdVerdict_WarningFirst(intIn, intHCIn, intOut, intHCOut, warnIn, warnOut, critIn, critOut) ==
    IF intIn > ToUint64(warnIn) \/ intHCIn > ToUint64(warnIn)
        THEN <<Warning, "Inbound exceeds threshold ">>
    ELSE IF intIn > ToUint64(critIn) \/ intHCIn > ToUint64(critIn)
        THEN <<Critical, "Inbound exceeds threshold ">>
    ELSE IF intOut > ToUint64(critOut) \/ intHCOut > ToUint64(critOut)
        THEN <<Critical, "Outbound exceeds threshold ">>
    ELSE IF intOut > ToUint64(warnOut) \/ intHCOut > ToUint64(warnOut)
        THEN <<Warning, "Outbound exceeds threshold ">>
    ELSE <<OK, "">>

\* The chain with the outbound critical comparison left out.
ThresholdVerdict_NoOutboundCritical(intIn, intHCIn, intOut, intHCOut, warnIn, warnOut, critIn, critOut) ==
    IF intIn > ToUint64(critIn) \/ intHCIn > ToUint64(critIn)
        THEN <<Critical, "Inbound exceeds threshold ">>
    ELSE IF intIn > ToUint64(warnIn) \/ intHCIn > ToUint64(warnIn)
        THEN <<Warning, "Inbound exceeds threshold ">>
    ELSE IF intOut > ToUint64(warnOut) \/ intHCOut > ToUint64(warnOut)
        THEN <<Warning, "Outbound exceeds threshold ">>
    ELSE <<OK, "">>

\* The if / else-if chain of lines 168-178 on the scaled numbers: the
\* gomonitor state and the text put before the message.
ThresholdVerdict(intIn, intHCIn, intOut, intHCOut, warnIn, warnOut, critIn, critOut) ==
    IF intIn > ToUint64(critIn) \/ intHCIn > ToUint64(critIn)
        THEN <<Critical, "Inbound exceeds threshold ">>
    ELSE IF intIn > ToUint64(warnIn) \/ intHCIn > ToUint64(warnIn)
        THEN <<Warning, "Inbound exceeds threshold ">>
    ELSE IF intOut > ToUint64(critOut) \/ intHCOut > ToUint64(critOut)
        THEN <<Critical, "Outbound exceeds threshold ">>
    ELSE IF intOut > ToUint64(warnOut) \/ intHCOut > ToUint64(warnOut)
        THEN <<Warning, "Outbound exceeds threshold ">>
    ELSE <<OK, "">>

\* One gomonitor.PerformanceMetric of lines 162-165.
RateMetric(name, rate, warn, crit, speed) ==
    [name |-> name, Value |-> UMul(rate, 8), Warn |-> warn, Crit |-> crit,
     Min |-> 0, Max |-> speed, UnitOM |-> "bps"]

\* The performance data of lines 160-166; snmp_latency is the mean of the
\* two latencies, kept in ticks.
PerformanceData(first, second, r, warnIn, warnOut, critIn, critOut) ==
    {[name |-> "snmp_latency",
      Value |-> (first.Latency + second.Latency) \div 2,
      Warn |-> 0, Crit |-> 0, Min |-> 0, Max |-> 0, UnitOM |-> "s"],
     RateMetric("in", r.in, warnIn, critIn, first.Speed),
     RateMetric("out", r.out, warnOut, critOut, first.Speed),
     RateMetric("hc_in", r.hcIn, warnIn, critIn, first.Speed),
     RateMetric("hc_out", r.hcOut, warnOut, critOut, first.Speed)}

\* The evaluation with a result other than OK carrying the text of its
\* condition alone, without the message of line 159.
DetermineInterfaceUsage_BareAlert(first, second, warnIn, warnOut, critIn, critOut, enablePerf) ==
    LET calc == CalcRates(first, second) IN
    IF calc = <<>> THEN [kind |-> "panic"]
    ELSE
      LET r == calc[1]
          scIn == convertToScale(r.in)
          scOut == convertToScale(r.out)
          scHCIn == convertToScale(r.hcIn)
          scHCOut == convertToScale(r.hcOut)
          v == ThresholdVerdict(scIn[1], scHCIn[1], scOut[1], scHCOut[1],
                                warnIn, warnOut, critIn, critOut)
      IN [kind |-> "result",
          state |-> v[1],
          message |-> IF v[1] = OK
                      THEN [prefix |-> v[2], name |-> first.Name,
                            In |-> scIn, Out |-> scOut,
                            HCIn |-> scHCIn, HCOut |-> scHCOut]
                      ELSE [prefix |-> v[2], name |-> "",
                            In |-> <<0, "">>, Out |-> <<0, "">>,
                            HCIn |-> <<0, "">>, HCOut |-> <<0, "">>],
          perf |-> IF enablePerf
                   THEN PerformanceData(first, second, r,
                                        warnIn, warnOut, critIn, critOut)
                   ELSE {}]

\* The evaluation with the link speed (in Mbit per second) taken as the
\* inbound critical threshold when none is configured.
DetermineInterfaceUsage_SpeedCapsVerdict(first, second, warnIn, warnOut, critIn, critOut, enablePerf) ==
    LET calc == CalcRates(first, second) IN
    IF calc = <<>> THEN [kind |-> "panic"]
    ELSE
      LET r == calc[1]
          scIn == convertToScale(r.in)
          scOut == convertToScale(r.out)
          scHCIn == convertToScale(r.hcIn)
          scHCOut == convertToScale(r.hcOut)
          cap == IF critIn = 0 THEN first.Speed \div 1000000 ELSE critIn
          v == ThresholdVerdict(scIn[1], scHCIn[1], scOut[1], scHCOut[1],
                                warnIn, warnOut, cap, critOut)
      IN [kind |-> "result",
          state |-> v[1],
          message |-> [prefix |-> v[2], name |-> first.Name,
                       In |-> scIn, Out |-> scOut,
                       HCIn |-> scHCIn, HCOut |-> scHCOut],
          perf |-> IF enablePerf
                   THEN PerformanceData(first, second, r,
                                        warnIn, warnOut, critIn, critOut)
                   ELSE {}]

\* DetermineInterfaceUsage(first, second, warnIn, warnOut, critIn, critOut,
\* enablePerf): the CheckResult it returns, or a panic.  The message of
\* line 159 is kept as its parts: the text set before it, the interface
\* name, and the scaled number and unit of each counter.
DetermineInterfaceUsage(first, second, warnIn, warnOut, critIn, critOut, enablePerf) ==
    LET calc == CalcRates(first, second) IN
    IF calc = <<>> THEN [kind |-> "panic"]
    ELSE
      LET r == calc[1]
          scIn == convertToScale(r.in)
          scOut == convertToScale(r.out)
          scHCIn == convertToScale(r.hcIn)
          scHCOut == convertToScale(r.hcOut)
          v == ThresholdVerdict(scIn[1], scHCIn[1], scOut[1], scHCOut[1],
                                warnIn, warnOut, critIn, critOut)
      IN [kind |-> "result",
          state |-> v[1],
          message |-> [prefix |-> v[2], name |-> first.Name,
                       In |-> scIn, Out |-> scOut,
                       HCIn |-> scHCIn, HCOut |-> scHCOut],
          perf |-> IF enablePerf
                   THEN PerformanceData(first, second, r,
                                        warnIn, warnOut, critIn, critOut)
                   ELSE {}]

\* ------------------------------------------------ main of check_interface_usage
VARIABLES
    pc,        \* where main is
    flags,     \* the parsed command line
    now,       \* the clock, in ticks
    measure1,  \* <<>> for a nil pointer, <<m>> for a pointer to m
    measure2,
    rates,     \* the locals in, out, hcIn, hcOut of the evaluation
    sent,      \* the check results handed to SendResult
    trace      \* the positions main has been in

\* A call of convertToScale on its own.
VARIABLES
    scaleIn,   \* the argument
    scaleOut   \* <<>> before the call, <<<<number, unit>>>> after it

\* One run of cmd/check_interfaces.
VARIABLES
    ipc,         \* where main and CheckInterfaceMetrics are
    baseIdx,     \* the position of the loop over baseOIDs
    walks,       \* the calls of snmpClient.Walk made so far and their answers
    pending,     \* the pairs of the current walk result not yet ranged over
    interfaces,  \* the map from index to InterfaceDetail
    checkResult, \* <<>> until SetResult, then <<the result>>
    isent        \* the check results handed to SendResult

\* The calls a check makes of Client.GetValue and Client.Walk.
VARIABLES
    cscript,   \* the steps of the caller
    cpos,      \* the step the caller is at
    cphase,    \* where the call under way is, "caller" between calls
    opened,    \* the sessions gosnmp has opened
    closed,    \* the sessions Conn.Close has closed
    cret,      \* <<>> or <<the values of the return statement executed>>
    creturns   \* what the calls have returned to the caller

\* One run of cmd/device_inventory.
VARIABLES
    dpc,                \* where main and CollectDeviceInventory are
    inventory,          \* <<>> for a nil result, <<r>> for a pointer to r
    inventoryErr,       \* the error CollectDeviceInventory returns
    collected,          \* what each collector called so far has returned
    currentIfIndex,     \* the package-level variables
    currentEntityIndex,
    walked,             \* the walk results ranged over, in the order ranged
    output              \* <<>> or <<what outputJSON has printed>>

\* One run of cmd/check_sysdescr.
VARIABLES
    sdpc,      \* where main is
    sdFlags,   \* -sysDescrPattern and -enablePerfData
    sdAnswer,  \* <<>> or <<what snmpClient.GetValue returned>>
    sdResult,  \* <<>> or <<the CheckResult CheckSysDescr returned>>
    sdSent     \* the check results handed to SendResult

\* One run of cmd/check_bgp_peers.
VARIABLES
    bpc,         \* where main and GetBgpPeers are
    indexResult, \* <<>> or <<the answer of GetTable>>
    bgpPos,      \* the position of the loop over indexResult.Variables
    bgpQueries,  \* the answer of GetValues for each index ranged over
    peers,       \* the slice peers
    bgpSent      \* the check results handed to SendResult

usageVars == <<pc, flags, now, measure1, measure2, rates, sent, trace>>
scaleVars == <<scaleIn, scaleOut>>
interfacesVars ==
    <<ipc, baseIdx, walks, pending, interfaces, checkResult, isent>>
clientVars == <<cscript, cpos, cphase, opened, closed, cret, creturns>>
inventoryVars ==
    <<dpc, inventory, inventoryErr, collected, currentIfIndex,
      currentEntityIndex, walked, output>>

sysDescrVars == <<sdpc, sdFlags, sdAnswer, sdResult, sdSent>>
bgpVars == <<bpc, indexResult, bgpPos, bgpQueries, peers, bgpSent>>

vars ==
    <<usageVars, scaleVars, interfacesVars, clientVars, inventoryVars,
      sysDescrVars, bgpVars>>

\* What a run of each program leaves alone.
notUsage ==
    <<scaleVars, interfacesVars, clientVars, inventoryVars, sysDescrVars,
      bgpVars>>
notScale ==
    <<usageVars, interfacesVars, clientVars, inventoryVars, sysDescrVars,
      bgpVars>>
notInterfaces ==
    <<usageVars, scaleVars, clientVars, inventoryVars, sysDescrVars, bgpVars>>
notClient ==
    <<usageVars, scaleVars, interfacesVars, inventoryVars, sysDescrVars,
      bgpVars>>
notInventory ==
    <<usageVars, scaleVars, interfacesVars, clientVars, sysDescrVars, bgpVars>>
notSysDescr ==
    <<usageVars, scaleVars, interfacesVars, clientVars, inventoryVars,
      bgpVars>>
notBgp ==
    <<usageVars, scaleVars, interfacesVars, clientVars, inventoryVars,
      sysDescrVars>>

\* -sysDescrPattern and -enablePerfData before flag.Parse.
NoSysDescrFlags == [sysDescrPattern |-> <<>>, enablePerfData |-> FALSE]

\* No run of check_sysdescr is under way.
SysDescrOff ==
    /\ sdpc = "Off"
    /\ sdFlags = NoSysDescrFlags
    /\ sdAnswer = <<>>
    /\ sdResult = <<>>
    /\ sdSent = <<>>

\* No run of check_bgp_peers is under way.
BgpOff ==
    /\ bpc = "Off"
    /\ indexResult = <<>>
    /\ bgpPos = 0
    /\ bgpQueries = <<>>
    /\ peers = <<>>
    /\ bgpSent = <<>>

\* No caller of the client is under way.
ClientOff ==
    /\ cscript = <<>>
    /\ cpos = 0
    /\ cphase = "Off"
    /\ opened = 0
    /\ closed = 0
    /\ cret = <<>>
    /\ creturns = <<>>

\* No run of device_inventory is under way.
InventoryOff ==
    /\ dpc = "Off"
    /\ inventory = <<>>
    /\ inventoryErr = FALSE
    /\ collected = <<>>
    /\ currentIfIndex = 0
    /\ currentEntityIndex = 0
    /\ walked = <<>>
    /\ output = <<>>

\* No run of check_interfaces is under way.
InterfacesOff ==
    /\ ipc = "Off"
    /\ baseIdx = 0
    /\ walks = <<>>
    /\ pending = {}
    /\ interfaces = <<>>
    /\ checkResult = <<>>
    /\ isent = <<>>

\* No call of convertToScale on its own is under way.
ScaleOff ==
    /\ scaleIn = 0
    /\ scaleOut = <<>>

Target == "127.0.0.1"

NoFlags ==
    [delay |-> 0, warnIn |-> 0, critIn |-> 0, warnOut |-> 0, critOut |-> 0,
     enablePerfData |-> FALSE]

\* No run of check_interface_usage is under way.
UsageOff ==
    /\ pc = "Off"
    /\ flags = NoFlags
    /\ now = 0
    /\ measure1 = <<>>
    /\ measure2 = <<>>
    /\ rates = <<>>
    /\ sent = <<>>
    /\ trace = <<>>

Init ==
    /\ pc = "Start"
    /\ flags = NoFlags
    /\ now = 0
    /\ measure1 = <<>>
    /\ measure2 = <<>>
    /\ rates = <<>>
    /\ sent = <<>>
    /\ trace = <<"Start">>
    /\ ScaleOff
    /\ InterfacesOff
    /\ ClientOff
    /\ InventoryOff
    /\ SysDescrOff
    /\ BgpOff

GoTo(p) ==
    /\ pc' = p
    /\ trace' = Append(trace, p)

\* The CheckResult of lines 201-204 and 212-215.
FailedToReturnData ==
    [kind |-> "result", state |-> Critical,
     message |-> [prefix |-> "SNMP target failed to return data",
                  name |-> Target],
     perf |-> {}]

\* flag.Parse and the construction of the client, lines 183-197.
ParseFlags ==
    /\ pc = "Start"
    /\ \E d \in DelayValues, wi \in WarnValues, ci \in CritValues,
          wo \in WarnValues, co \in CritValues, e \in BOOLEAN :
            flags' = [delay |-> d, warnIn |-> wi, critIn |-> ci,
                      warnOut |-> wo, critOut |-> co, enablePerfData |-> e]
    /\ GoTo("CollectingFirst")
    /\ UNCHANGED <<now, measure1, measure2, rates, sent, notUsage>>

\* The first sample, lines 199-205.  SendResult prints the result and ends
\* the process with the exit code of its state.
CollectFirst ==
    /\ pc = "CollectingFirst"
    /\ \E resp \in Responses, latency \in 1..MaxLatencyTicks :
        LET got == GetInterfaceMetrics(resp, latency, now + latency) IN
        /\ now' = now + latency
        /\ measure1' = got.metrics
        /\ IF got.kind = "ok" THEN GoTo("Waiting") /\ sent' = sent
           ELSE IF got.kind = "error"
                THEN GoTo("Terminal") /\ sent' = Append(sent, FailedToReturnData)
           ELSE GoTo("Crashed") /\ sent' = sent
    /\ UNCHANGED <<flags, measure2, rates, notUsage>>

\* time.Sleep(delay seconds), line 208.
Sleep ==
    /\ pc = "Waiting"
    /\ now' = now + (IF flags.delay > 0 THEN flags.delay ELSE 0) * TicksPerSecond
    /\ GoTo("CollectingSecond")
    /\ UNCHANGED <<flags, measure1, measure2, rates, sent, notUsage>>

\* The second sample, lines 210-216.
CollectSecond ==
    /\ pc = "CollectingSecond"
    /\ \E resp \in Responses, latency \in 1..MaxLatencyTicks :
        LET got == GetInterfaceMetrics(resp, latency, now + latency) IN
        /\ now' = now + latency
        /\ measure2' = got.metrics
        /\ IF got.kind = "ok" THEN GoTo("Evaluating") /\ sent' = sent
           ELSE IF got.kind = "error"
                THEN GoTo("Terminal") /\ sent' = Append(sent, FailedToReturnData)
           ELSE GoTo("Crashed") /\ sent' = sent
    /\ UNCHANGED <<flags, measure1, rates, notUsage>>

\* The evaluation and the report, lines 219-220.
Evaluate ==
    /\ pc = "Evaluating"
    /\ LET result == DetermineInterfaceUsage(measure1[1], measure2[1],
                        flags.warnIn, flags.warnOut, flags.critIn,
                        flags.critOut, flags.enablePerfData)
       IN /\ rates' = CalcRates(measure1[1], measure2[1])
          /\ IF result.kind = "panic"
             THEN GoTo("Crashed") /\ sent' = sent
             ELSE GoTo("Terminal") /\ sent' = Append(sent, result)
    /\ UNCHANGED <<flags, now, measure1, measure2, notUsage>>

Next ==
    \/ ParseFlags
    \/ CollectFirst
    \/ Sleep
    \/ CollectSecond
    \/ Evaluate

Spec == Init /\ [][Next]_vars

\* ------------------------------------------------------------------ strings
\* A Go string is the sequence of its characters.
DigitChars == <<"0", "1", "2", "3", "4", "5", "6", "7", "8", "9">>
IsDigit(c) == \E i \in 1..Len(DigitChars) : DigitChars[i] = c
DigitOf(c) == (CHOOSE i \in 1..Len(DigitChars) : DigitChars[i] = c) - 1

\* The decimal numeral of a natural number.
RECURSIVE Itoa(_)
Itoa(n) ==
    IF n < 10 THEN <<DigitChars[n + 1]>>
    ELSE Itoa(n \div 10) \o <<DigitChars[(n % 10) + 1]>>

\* The string literal ".a.b.c" of an OID constant.
RECURSIVE Dotted(_)
Dotted(nums) ==
    IF nums = <<>> THEN <<>>
    ELSE <<".">> \o Itoa(Head(nums)) \o Dotted(Tail(nums))

\* strings.Split(s, sep) for a separator of one character: done are the
\* substrings before the last separator met and cur is the one after it.
RECURSIVE SplitFrom(_, _, _, _)
SplitFrom(s, sep, done, cur) ==
    IF s = <<>> THEN Append(done, cur)
    ELSE IF Head(s) = sep THEN SplitFrom(Tail(s), sep, Append(done, cur), <<>>)
    ELSE SplitFrom(Tail(s), sep, done, Append(cur, Head(s)))

Split(s, sep) == SplitFrom(s, sep, <<>>, <<>>)

\* strings.Join(elems, sep)
RECURSIVE Join(_, _)
Join(elems, sep) ==
    IF elems = <<>> THEN <<>>
    ELSE IF Len(elems) = 1 THEN elems[1]
    ELSE elems[1] \o <<sep>> \o Join(Tail(elems), sep)

RECURSIVE DigitsValue(_)
DigitsValue(digits) ==
    IF digits = <<>> THEN 0
    ELSE DigitsValue(SubSeq(digits, 1, Len(digits) - 1)) * 10
            + DigitOf(digits[Len(digits)])

\* strconv.Atoi(s): an optional sign and at least one decimal digit.
Atoi(s) ==
    LET signed == s # <<>> /\ Head(s) \in {"+", "-"}
        digits == IF signed THEN Tail(s) ELSE s
        ok == digits # <<>> /\ \A i \in 1..Len(digits) : IsDigit(digits[i])
    IN  IF ~ok THEN [err |-> TRUE, val |-> 0]
        ELSE [err |-> FALSE,
              val |-> IF signed /\ Head(s) = "-" THEN 0 - DigitsValue(digits)
                      ELSE DigitsValue(digits)]

\* ---------------------------------------------------------- check_interfaces
\* The OID constants of lines 128-166, OID.IfDescr for OIDIfDescr.
OID ==
    [IfDescr |-> Dotted(<<1, 3, 6, 1, 2, 1, 2, 2, 1, 2>>),
     IfName |-> Dotted(<<1, 3, 6, 1, 2, 1, 31, 1, 1, 1, 1>>),
     IfAlias |-> Dotted(<<1, 3, 6, 1, 2, 1, 31, 1, 1, 1, 18>>),
     IfPhysAddress |-> Dotted(<<1, 3, 6, 1, 2, 1, 2, 2, 1, 6>>),
     IfIndex |-> Dotted(<<1, 3, 6, 1, 2, 1, 2, 2, 1, 1>>),
     IfType |-> Dotted(<<1, 3, 6, 1, 2, 1, 2, 2, 1, 3>>),
     IfMTU |-> Dotted(<<1, 3, 6, 1, 2, 1, 2, 2, 1, 4>>),
     IfSpeed |-> Dotted(<<1, 3, 6, 1, 2, 1, 2, 2, 1, 5>>),
     IfHighSpeed |-> Dotted(<<1, 3, 6, 1, 2, 1, 31, 1, 1, 1, 15>>),
     IfOperStatus |-> Dotted(<<1, 3, 6, 1, 2, 1, 2, 2, 1, 8>>),
     IfAdminStatus |-> Dotted(<<1, 3, 6, 1, 2, 1, 2, 2, 1, 7>>),
     IfInOctets |-> Dotted(<<1, 3, 6, 1, 2, 1, 2, 2, 1, 10>>),
     IfOutOctets |-> Dotted(<<1, 3, 6, 1, 2, 1, 2, 2, 1, 16>>),
     HCInOctets |-> Dotted(<<1, 3, 6, 1, 2, 1, 31, 1, 1, 1, 6>>),
     HCOutOctets |-> Dotted(<<1, 3, 6, 1, 2, 1, 31, 1, 1, 1, 10>>),
     IfInUcastPkts |-> Dotted(<<1, 3, 6, 1, 2, 1, 2, 2, 1, 11>>),
     IfOutUcastPkts |-> Dotted(<<1, 3, 6, 1, 2, 1, 2, 2, 1, 17>>),
     HCInUcastPkts |-> Dotted(<<1, 3, 6, 1, 2, 1, 31, 1, 1, 1, 7>>),
     HCOutUcastPkts |-> Dotted(<<1, 3, 6, 1, 2, 1, 31, 1, 1, 1, 11>>),
     IfInBroadcastPkts |-> Dotted(<<1, 3, 6, 1, 2, 1, 31, 1, 1, 1, 3>>),
     IfOutBroadcastPkts |-> Dotted(<<1, 3, 6, 1, 2, 1, 31, 1, 1, 1, 5>>),
     IfHCInBroadcastPkts |-> Dotted(<<1, 3, 6, 1, 2, 1, 31, 1, 1, 1, 9>>),
     IfHCOutBroadcastPkts |-> Dotted(<<1, 3, 6, 1, 2, 1, 31, 1, 1, 1, 13>>),
     IfInMulticastPkts |-> Dotted(<<1, 3, 6, 1, 2, 1, 31, 1, 1, 1, 2>>),
     IfOutMulticastPkts |-> Dotted(<<1, 3, 6, 1, 2, 1, 31, 1, 1, 1, 4>>),
     IfHCInMulticastPkts |-> Dotted(<<1, 3, 6, 1, 2, 1, 31, 1, 1, 1, 8>>),
     IfHCOutMulticastPkts |-> Dotted(<<1, 3, 6, 1, 2, 1, 31, 1, 1, 1, 12>>),
     IfOutNUcastPkts |-> Dotted(<<1, 3, 6, 1, 2, 1, 2, 2, 1, 15>>),
     IfInErrors |-> Dotted(<<1, 3, 6, 1, 2, 1, 2, 2, 1, 14>>),
     IfOutErrors |-> Dotted(<<1, 3, 6, 1, 2, 1, 2, 2, 1, 20>>),
     IfInDiscards |-> Dotted(<<1, 3, 6, 1, 2, 1, 2, 2, 1, 13>>),
     IfOutDiscards |-> Dotted(<<1, 3, 6, 1, 2, 1, 2, 2, 1, 19>>),
     IfLastChange |-> Dotted(<<1, 3, 6, 1, 2, 1, 2, 2, 1, 9>>),
     IfLinkUpDownTrapEnable |-> Dotted(<<1, 3, 6, 1, 2, 1, 31, 1, 1, 1, 14>>),
     IfPromiscuousMode |-> Dotted(<<1, 3, 6, 1, 2, 1, 31, 1, 1, 1, 16>>),
     IfConnectorPresent |-> Dotted(<<1, 3, 6, 1, 2, 1, 31, 1, 1, 1, 17>>),
     IfCounterDiscontinuityTime |-> Dotted(<<1, 3, 6, 1, 2, 1, 31, 1, 1, 1, 19>>)]

\* The zero value of InterfaceDetail; PhysAddress, the one string built
\* character by character, is a sequence of characters.
InterfaceDetailZero ==
    [Description |-> "",
     Name |-> "",
     Alias |-> "",
     PhysAddress |-> <<>>,
     Index |-> 0,
     Type |-> 0,
     MTU |-> 0,
     Speed |-> 0,
     HighSpeed |-> 0,
     OperStatus |-> 0,
     AdminStatus |-> 0,
     InOctets |-> 0,
     OutOctets |-> 0,
     HCInOctets |-> 0,
     HCOutOctets |-> 0,
     InUcastPkts |-> 0,
     OutUcastPkts |-> 0,
     HCInUcastPkts |-> 0,
     HCOutUcastPkts |-> 0,
     InMulticastPkts |-> 0,
     OutMulticastPkts |-> 0,
     HCInMulticastPkts |-> 0,
     HCOutMulticastPkts |-> 0,
     InBroadcastPkts |-> 0,
     OutBroadcastPkts |-> 0,
     HCInBroadcastPkts |-> 0,
     HCOutBroadcastPkts |-> 0,
     InNUcastPkts |-> 0,
     OutNUcastPkts |-> 0,
     InErrors |-> 0,
     OutErrors |-> 0,
     InDiscards |-> 0,
     OutDiscards |-> 0,
     LastChange |-> 0,
     LinkUpDownTrapEnable |-> 0,
     PromiscuousMode |-> 0,
     ConnectorPresent |-> 0,
     CounterDiscontinuityTime |-> 0]

\* The cases of the switch of updateInterfaceDetails in the order of the
\* source: the OID, the asserted Go type, the field assigned and the
\* conversion applied to the value.
InterfaceCases ==
    <<
        [oid |-> OID.IfIndex, type |-> "int", field |-> "Index", conv |-> "none"],
        [oid |-> OID.IfDescr, type |-> "bytes", field |-> "Description", conv |-> "string"],
        [oid |-> OID.IfType, type |-> "int", field |-> "Type", conv |-> "none"],
        [oid |-> OID.IfMTU, type |-> "int", field |-> "MTU", conv |-> "none"],
        [oid |-> OID.IfSpeed, type |-> "uint", field |-> "Speed", conv |-> "none"],
        [oid |-> OID.IfHighSpeed, type |-> "uint", field |-> "HighSpeed", conv |-> "none"],
        [oid |-> OID.IfPhysAddress, type |-> "bytes", field |-> "PhysAddress", conv |-> "hex"],
        [oid |-> OID.IfAdminStatus, type |-> "int", field |-> "AdminStatus", conv |-> "none"],
        [oid |-> OID.IfOperStatus, type |-> "int", field |-> "OperStatus", conv |-> "none"],
        [oid |-> OID.IfLastChange, type |-> "uint32", field |-> "LastChange", conv |-> "none"],
        [oid |-> OID.IfInOctets, type |-> "uint", field |-> "InOctets", conv |-> "none"],
        [oid |-> OID.IfInUcastPkts, type |-> "uint", field |-> "InUcastPkts", conv |-> "none"],
        [oid |-> OID.IfInDiscards, type |-> "uint", field |-> "InDiscards", conv |-> "none"],
        [oid |-> OID.IfInErrors, type |-> "uint", field |-> "InErrors", conv |-> "none"],
        [oid |-> OID.IfOutOctets, type |-> "uint", field |-> "OutOctets", conv |-> "none"],
        [oid |-> OID.IfOutUcastPkts, type |-> "uint", field |-> "OutUcastPkts", conv |-> "none"],
        [oid |-> OID.IfOutDiscards, type |-> "uint", field |-> "OutDiscards", conv |-> "none"],
        [oid |-> OID.IfOutErrors, type |-> "uint", field |-> "OutErrors", conv |-> "none"],
        [oid |-> OID.IfOutNUcastPkts, type |-> "uint", field |-> "OutNUcastPkts", conv |-> "none"],
        [oid |-> OID.IfName, type |-> "bytes", field |-> "Name", conv |-> "string"],
        [oid |-> OID.IfAlias, type |-> "bytes", field |-> "Alias", conv |-> "string"],
        [oid |-> OID.HCInOctets, type |-> "uint64", field |-> "HCInOctets", conv |-> "none"],
        [oid |-> OID.HCOutOctets, type |-> "uint64", field |-> "HCOutOctets", conv |-> "none"],
        [oid |-> OID.HCInUcastPkts, type |-> "uint64", field |-> "HCInUcastPkts", conv |-> "none"],
        [oid |-> OID.HCOutUcastPkts, type |-> "uint64", field |-> "HCOutUcastPkts", conv |-> "none"],
        [oid |-> OID.IfHCInMulticastPkts, type |-> "uint64", field |-> "HCInMulticastPkts", conv |-> "none"],
        [oid |-> OID.IfHCInBroadcastPkts, type |-> "uint64", field |-> "HCInBroadcastPkts", conv |-> "none"],
        [oid |-> OID.IfHCOutBroadcastPkts, type |-> "uint64", field |-> "HCOutBroadcastPkts", conv |-> "none"],
        [oid |-> OID.IfLinkUpDownTrapEnable, type |-> "int", field |-> "LinkUpDownTrapEnable", conv |-> "none"],
        [oid |-> OID.IfConnectorPresent, type |-> "int", field |-> "ConnectorPresent", conv |-> "none"],
        [oid |-> OID.IfOutBroadcastPkts, type |-> "uint", field |-> "OutBroadcastPkts", conv |-> "none"],
        [oid |-> OID.IfInBroadcastPkts, type |-> "uint", field |-> "OutBroadcastPkts", conv |-> "none"],
        [oid |-> OID.IfCounterDiscontinuityTime, type |-> "uint32", field |-> "CounterDiscontinuityTime", conv |-> "none"],
        [oid |-> OID.IfHCOutMulticastPkts, type |-> "uint64", field |-> "HCOutMulticastPkts", conv |-> "none"],
        [oid |-> OID.IfInMulticastPkts, type |-> "uint", field |-> "InMulticastPkts", conv |-> "none"],
        [oid |-> OID.IfOutMulticastPkts, type |-> "uint", field |-> "OutMulticastPkts", conv |-> "none"],
        [oid |-> OID.IfPromiscuousMode, type |-> "int", field |-> "PromiscuousMode", conv |-> "none"]
    >>

HexChars ==
    <<"0", "1", "2", "3", "4", "5", "6", "7", "8", "9",
      "a", "b", "c", "d", "e", "f">>

\* hex.EncodeToString(val): two lower-case digits a byte.
RECURSIVE HexEncodeToString(_)
HexEncodeToString(val) ==
    IF val = <<>> THEN <<>>
    ELSE <<HexChars[(Head(val) \div 16) + 1], HexChars[(Head(val) % 16) + 1]>>
            \o HexEncodeToString(Tail(val))

\* updateInterfaceDetails with every value written whatever its type.
updateInterfaceDetails_Coerce(ifaceDetails, oid, value) ==
    LET hits == {k \in 1..Len(InterfaceCases) : InterfaceCases[k].oid = oid}
    IN  IF hits = {} THEN ifaceDetails
        ELSE LET c == InterfaceCases[CHOOSE k \in hits : TRUE]
             IN  [ifaceDetails EXCEPT ![c.field] = value.val]

\* updateInterfaceDetails with a default case that resets the record.
updateInterfaceDetails_UnknownResets(ifaceDetails, oid, value) ==
    LET hits == {k \in 1..Len(InterfaceCases) : InterfaceCases[k].oid = oid}
    IN  IF hits = {} THEN InterfaceDetailZero
        ELSE LET c == InterfaceCases[CHOOSE k \in hits : TRUE]
             IN  IF value.type # c.type THEN ifaceDetails
                 ELSE [ifaceDetails EXCEPT ![c.field] =
                        IF c.conv = "hex" THEN HexEncodeToString(value.val)
                        ELSE value.val]

\* updateInterfaceDetails(ifaceDetails, oid, value): the case of the OID
\* assigns its field when the comma-ok assertion of its type succeeds and
\* only logs otherwise; the default case only logs.
updateInterfaceDetails(ifaceDetails, oid, value) ==
    LET hits == {k \in 1..Len(InterfaceCases) : InterfaceCases[k].oid = oid}
    IN  IF hits = {} THEN ifaceDetails
        ELSE LET c == InterfaceCases[CHOOSE k \in hits : TRUE]
             IN  IF value.type # c.type THEN ifaceDetails
                 ELSE [ifaceDetails EXCEPT ![c.field] =
                        IF c.conv = "hex" THEN HexEncodeToString(value.val)
                        ELSE value.val]

\* The fields renderToString prints, after the index of the map key.
RenderedFields ==
    {"Description", "Alias", "Name", "Type", "Speed", "HighSpeed",
     "OperStatus", "AdminStatus", "InOctets", "OutOctets", "HCInOctets",
     "HCOutOctets", "HCInUcastPkts", "HCOutUcastPkts", "InErrors",
     "OutErrors", "InUcastPkts", "OutUcastPkts", "InNUcastPkts",
     "OutNUcastPkts", "PromiscuousMode", "LastChange", "PhysAddress"}

renderToString(ifaceDetail, index) ==
    [index |-> index, values |-> [f \in RenderedFields |-> ifaceDetail[f]]]

\* buildInterfaceDetailsMessage(interfaces): order is the order in which the
\* range over the map yields its keys.
buildInterfaceDetailsMessage(ifaces, order) ==
    [k \in 1..Len(order) |-> renderToString(ifaces[order[k]], order[k])]

\* The orders in which a range over a map with these keys can yield them.
RangeOrders(keys) ==
    {o \in [1..Cardinality(keys) -> keys] :
        \A j, k \in 1..Cardinality(keys) : j # k => o[j] # o[k]}

\* One turn of the range over a walk result, lines 427-447, with the index
\* taken from the last but one field of the OID.
AssemblePair_ColumnAsIndex(ifaces, oid, value) ==
    LET fields == Split(oid, ".")
        parsed == Atoi(fields[Len(fields) - 1])
        index == parsed.val
        oidWithoutIndex == Join(SubSeq(fields, 1, Len(fields) - 1), ".")
        ifaceDetails == IF index \in DOMAIN ifaces THEN ifaces[index]
                        ELSE InterfaceDetailZero
    IN  IF parsed.err THEN [err |-> TRUE, interfaces |-> ifaces]
        ELSE [err |-> FALSE,
              interfaces |->
                [i \in DOMAIN ifaces \cup {index} |->
                    IF i = index
                    THEN updateInterfaceDetails(ifaceDetails,
                                                oidWithoutIndex, value)
                    ELSE ifaces[i]]]

\* One turn of the range over a walk result, lines 427-447: the index is
\* strconv.Atoi of the last field of the OID, the record of that index is
\* created on first sight and updated under the OID without its index.
AssemblePair(ifaces, oid, value) ==
    LET fields == Split(oid, ".")
        parsed == Atoi(fields[Len(fields)])
        index == parsed.val
        oidWithoutIndex == Join(SubSeq(fields, 1, Len(fields) - 1), ".")
        ifaceDetails == IF index \in DOMAIN ifaces THEN ifaces[index]
                        ELSE InterfaceDetailZero
    IN  IF parsed.err THEN [err |-> TRUE, interfaces |-> ifaces]
        ELSE [err |-> FALSE,
              interfaces |->
                [i \in DOMAIN ifaces \cup {index} |->
                    IF i = index
                    THEN updateInterfaceDetails(ifaceDetails,
                                                oidWithoutIndex, value)
                    ELSE ifaces[i]]]

\* baseOIDs, line 412: IF-MIB ifTable and ifXTable, without a leading dot.
baseOIDs ==
    <<Tail(Dotted(<<1, 3, 6, 1, 2, 1, 2, 2>>)),
      Tail(Dotted(<<1, 3, 6, 1, 2, 1, 31, 1, 1, 1>>))>>

\* The most pairs in one walk result.
MaxWalkPairs == 3

\* ifInNUcastPkts, a column of ifTable without a case in the switch.
ColumnIfInNUcastPkts == Dotted(<<1, 3, 6, 1, 2, 1, 2, 2, 1, 12>>)

\* A pair of a walk result: pdu.Name (the column, a dot and the suffix) and
\* pdu.Value.
Row(column, suffix, value) ==
    [oid |-> column \o <<".">> \o suffix, value |-> value]

\* What the agent can answer: rows of two interfaces, a column the check
\* does not know, suffixes that are no interface index, and values of
\* another wire type than their column's.
AgentRows ==
    {Row(OID.IfDescr, <<"3">>, Bytes("eth0")),
     Row(OID.IfDescr, <<"4">>, Bytes("eth1")),
     Row(OID.IfSpeed, <<"3">>, UintV(100000)),
     Row(OID.IfSpeed, <<"3">>, IntV(100000)),
     Row(ColumnIfInNUcastPkts, <<"3">>, UintV(12)),
     Row(OID.IfDescr, <<"-", "3">>, Bytes("neg")),
     Row(OID.IfSpeed, <<"x">>, UintV(11)),
     Row(OID.HCInOctets, <<"3">>, Uint64V(500)),
     Row(OID.HCInOctets, <<"3">>, UintV(500)),
     Row(OID.HCInOctets, <<"4">>, Uint64V(600)),
     Row(OID.IfInBroadcastPkts, <<"3">>, UintV(7)),
     Row(OID.IfOutBroadcastPkts, <<"3">>, UintV(9))}

\* The OID lies in the subtree of rootOid.
InSubtree(rootOid, oid) ==
    LET root == <<".">> \o rootOid \o <<".">>
    IN  /\ Len(oid) > Len(root)
        /\ SubSeq(oid, 1, Len(root)) = root

\* The maps snmpClient.Walk(rootOid) can return without an error.
WalkResults(rootOid) ==
    {r \in SUBSET {row \in AgentRows : InSubtree(rootOid, row.oid)} :
        /\ Cardinality(r) <= MaxWalkPairs
        /\ \A a, b \in r : a.oid = b.oid => a = b}

WalkFailedResult ==
    [state |-> Critical,
     text |-> "SNMP target failed to return data for requested OID",
     listing |-> <<>>]

BadIndexResult ==
    [state |-> Critical,
     text |-> "failed to convert interface index to int",
     listing |-> <<>>]

InitInterfaces ==
    /\ UsageOff
    /\ ScaleOff
    /\ ClientOff
    /\ InventoryOff
    /\ ipc = "Start"
    /\ baseIdx = 0
    /\ walks = <<>>
    /\ pending = {}
    /\ interfaces = <<>>
    /\ checkResult = <<>>
    /\ isent = <<>>
    /\ SysDescrOff
    /\ BgpOff

\* main up to the call of CheckInterfaceMetrics and its lines 412-417.
InterfacesStart ==
    /\ ipc = "Start"
    /\ ipc' = "Walk"
    /\ baseIdx' = 1
    /\ UNCHANGED <<walks, pending, interfaces, checkResult, isent>>
    /\ UNCHANGED notInterfaces

\* The walk with the loop going on to the range after a failed walk.
WalkTable_ContinueOnError ==
    /\ ipc = "Walk"
    /\ \/ /\ walks' = Append(walks, [rootOid |-> baseOIDs[baseIdx],
                                    err |-> TRUE, result |-> {}])
          /\ checkResult' = checkResult
          /\ ipc' = "Range"
          /\ pending' = {}
       \/ \E r \in WalkResults(baseOIDs[baseIdx]) :
            /\ walks' = Append(walks, [rootOid |-> baseOIDs[baseIdx],
                                      err |-> FALSE, result |-> r])
            /\ pending' = r
            /\ ipc' = "Range"
            /\ checkResult' = checkResult
    /\ UNCHANGED <<baseIdx, interfaces, isent>>
    /\ UNCHANGED notInterfaces

\* snmpClient.Walk(baseOID) and the test of its error, lines 419-425.
WalkTable ==
    /\ ipc = "Walk"
    /\ \/ /\ walks' = Append(walks, [rootOid |-> baseOIDs[baseIdx],
                                    err |-> TRUE, result |-> {}])
          /\ checkResult' = <<WalkFailedResult>>
          /\ ipc' = "Returned"
          /\ pending' = pending
       \/ \E r \in WalkResults(baseOIDs[baseIdx]) :
            /\ walks' = Append(walks, [rootOid |-> baseOIDs[baseIdx],
                                      err |-> FALSE, result |-> r])
            /\ pending' = r
            /\ ipc' = "Range"
            /\ checkResult' = checkResult
    /\ UNCHANGED <<baseIdx, interfaces, isent>>
    /\ UNCHANGED notInterfaces

\* One turn of the range over the walk result, lines 426-447: the map
\* yields any pair it has not yielded yet.
RangePair ==
    /\ ipc = "Range"
    /\ \E pair \in pending :
        LET done == AssemblePair(interfaces, pair.oid, pair.value) IN
        /\ pending' = pending \ {pair}
        /\ interfaces' = done.interfaces
        /\ IF done.err
           THEN checkResult' = <<BadIndexResult>> /\ ipc' = "Returned"
           ELSE checkResult' = checkResult /\ ipc' = ipc
    /\ UNCHANGED <<baseIdx, walks, isent>>
    /\ UNCHANGED notInterfaces

\* The end of the range and the next turn of the loop over baseOIDs.
NextTable ==
    /\ ipc = "Range"
    /\ pending = {}
    /\ baseIdx' = baseIdx + 1
    /\ ipc' = IF baseIdx < Len(baseOIDs) THEN "Walk" ELSE "Build"
    /\ UNCHANGED <<walks, pending, interfaces, checkResult, isent>>
    /\ UNCHANGED notInterfaces

\* buildInterfaceDetailsMessage and SetResult(OK), lines 450-452.
BuildMessage ==
    /\ ipc = "Build"
    /\ \E order \in RangeOrders(DOMAIN interfaces) :
        checkResult' =
            <<[state |-> OK, text |-> "",
               listing |-> buildInterfaceDetailsMessage(interfaces, order)]>>
    /\ ipc' = "Returned"
    /\ UNCHANGED <<baseIdx, walks, pending, interfaces, isent>>
    /\ UNCHANGED notInterfaces

\* result.SendResult(), line 470.
SendInterfaces ==
    /\ ipc = "Returned"
    /\ isent' = Append(isent, checkResult[1])
    /\ ipc' = "Exited"
    /\ UNCHANGED <<baseIdx, walks, pending, interfaces, checkResult>>
    /\ UNCHANGED notInterfaces

NextInterfaces ==
    \/ InterfacesStart
    \/ WalkTable
    \/ RangePair
    \/ NextTable
    \/ BuildMessage
    \/ SendInterfaces

SpecInterfaces == InitInterfaces /\ [][NextInterfaces]_vars

\* ------------------------------------------------------- the SNMP client
\* The operations of Client and a step of a caller: the operation, and
\* whether the caller abandons its work when the operation fails.
ClientOps == {"GetValue", "Walk"}
CallerStep(op, fatal) == [op |-> op, fatal |-> fatal]

\* The callers of the client: main of check_interface_usage, main of
\* check_interfaces and CollectDeviceInventory, each ending with the step
\* that reports.
CallerScripts ==
    {<<CallerStep("GetValue", TRUE), CallerStep("Sleep", FALSE),
       CallerStep("GetValue", TRUE), CallerStep("Evaluate", FALSE),
       CallerStep("Report", FALSE)>>,
     <<CallerStep("Walk", TRUE), CallerStep("Range", FALSE),
       CallerStep("Walk", TRUE), CallerStep("Range", FALSE),
       CallerStep("Build", FALSE), CallerStep("Report", FALSE)>>,
     <<CallerStep("GetValue", TRUE), CallerStep("Walk", FALSE),
       CallerStep("Walk", FALSE), CallerStep("Walk", FALSE),
       CallerStep("GetValue", FALSE), CallerStep("GetValue", FALSE),
       CallerStep("Report", FALSE)>>}

\* What a request that succeeds gives: the packet of a Get, the map of a
\* BulkWalk.
RequestResults(op) ==
    IF op = "GetValue" THEN {BasePacket}
    ELSE {{}, {Row(OID.IfDescr, <<"3">>, Bytes("eth0"))}}

\* return nil, 0, err
ClientError(connected) ==
    [connected |-> connected, result |-> <<>>, latency |-> 0, err |-> TRUE]

InitClient ==
    /\ UsageOff
    /\ ScaleOff
    /\ InterfacesOff
    /\ InventoryOff
    /\ cscript \in CallerScripts
    /\ cpos = 1
    /\ cphase = "caller"
    /\ opened = 0
    /\ closed = 0
    /\ cret = <<>>
    /\ creturns = <<>>
    /\ SysDescrOff
    /\ BgpOff

\* A step of the caller that is no call of the client: the sleep, the
\* evaluation, the assembly.
CallerWork ==
    /\ cphase = "caller"
    /\ cpos < Len(cscript)
    /\ cscript[cpos].op \notin ClientOps
    /\ cpos' = cpos + 1
    /\ UNCHANGED <<cscript, cphase, opened, closed, cret, creturns>>
    /\ UNCHANGED notClient

\* The caller calls GetValue or Walk.
ClientCall ==
    /\ cphase = "caller"
    /\ cpos < Len(cscript)
    /\ cscript[cpos].op \in ClientOps
    /\ cphase' = "Connect"
    /\ UNCHANGED <<cscript, cpos, opened, closed, cret, creturns>>
    /\ UNCHANGED notClient

\* s.Connect() and the test of its error, lines 70-73 and 92-95: gosnmp
\* opens a session or fails and opens none.
ClientConnect ==
    /\ cphase = "Connect"
    /\ \/ /\ cret' = <<ClientError(FALSE)>>
          /\ cphase' = "Return"
          /\ opened' = opened
       \/ /\ opened' = opened + 1
          /\ cphase' = "Request"
          /\ cret' = cret
    /\ UNCHANGED <<cscript, cpos, closed, creturns>>
    /\ UNCHANGED notClient

\* The request with a failure returning past the deferred Close.
ClientRequest_NoCloseOnError ==
    /\ cphase = "Request"
    /\ \/ /\ cret' = <<ClientError(TRUE)>>
          /\ cphase' = "Return"
       \/ \E r \in RequestResults(cscript[cpos].op),
             l \in 1..MaxLatencyTicks :
            /\ cret' = <<[connected |-> TRUE, result |-> <<r>>,
                          latency |-> l, err |-> FALSE]>>
            /\ cphase' = "Deferred"
    /\ UNCHANGED <<cscript, cpos, opened, closed, creturns>>
    /\ UNCHANGED notClient

\* snmpClient.Get / snmpClient.BulkWalk and the return statement that
\* follows, lines 76-85 and 98-112; the deferred call is still to run.
ClientRequest ==
    /\ cphase = "Request"
    /\ \/ cret' = <<ClientError(TRUE)>>
       \/ \E r \in RequestResults(cscript[cpos].op),
             l \in 1..MaxLatencyTicks :
            cret' = <<[connected |-> TRUE, result |-> <<r>>,
                       latency |-> l, err |-> FALSE]>>
    /\ cphase' = "Deferred"
    /\ UNCHANGED <<cscript, cpos, opened, closed, creturns>>
    /\ UNCHANGED notClient

\* defer snmpClient.Conn.Close(), lines 74 and 96.
ClientClose ==
    /\ cphase = "Deferred"
    /\ closed' = closed + 1
    /\ cphase' = "Return"
    /\ UNCHANGED <<cscript, cpos, opened, cret, creturns>>
    /\ UNCHANGED notClient

\* The caller has the values returned; it goes to its report when the call
\* failed and it does not go on after a failure of it.
ClientReturn ==
    /\ cphase = "Return"
    /\ creturns' = Append(creturns, cret[1])
    /\ cret' = <<>>
    /\ cphase' = "caller"
    /\ cpos' = IF cret[1].err /\ cscript[cpos].fatal THEN Len(cscript)
               ELSE cpos + 1
    /\ UNCHANGED <<cscript, opened, closed>>
    /\ UNCHANGED notClient

NextClient ==
    \/ CallerWork
    \/ ClientCall
    \/ ClientConnect
    \/ ClientRequest
    \/ ClientClose
    \/ ClientReturn

SpecClient == InitClient /\ [][NextClient]_vars

\* ---------------------------------------------------------- device_inventory
\* The string literal "a.b.c" of an OID written without a leading dot.
Undotted(nums) == Tail(Dotted(nums))

\* string for an ObjectIdentifier
StringV(v) == [type |-> "string", val |-> v]

\* The zero values of SystemInfo and Interface.  A float64 that is a
\* quotient is the pair of its numerator and denominator.
SystemInfoZero ==
    [Description |-> "", ObjectID |-> "", UpTime |-> <<0, 1>>,
     Contact |-> "", Name |-> "", Location |-> ""]
InterfaceZero ==
    [Index |-> 0, Description |-> "", Type |-> 0, MTU |-> 0, Speed |-> 0,
     MACAddress |-> <<>>, AdminStatus |-> 0, OperStatus |-> 0,
     InOctets |-> 0, OutOctets |-> 0]

\* result := &InventoryResult{}: nil slices and nil pointers are <<>>.
InventoryResultZero ==
    [SystemInfo |-> SystemInfoZero, Interfaces |-> <<>>,
     IPAddresses |-> <<>>, PhysicalEntities |-> <<>>,
     CPU |-> <<>>, Memory |-> <<>>]

\* The OIDs of collectSystemInfo in the order of its slice, each with the
\* type its case asserts and the field it assigns.
SystemInfoCases ==
    <<[oid |-> Undotted(<<1, 3, 6, 1, 2, 1, 1, 1, 0>>),
       type |-> "bytes", field |-> "Description"],
      [oid |-> Undotted(<<1, 3, 6, 1, 2, 1, 1, 2, 0>>),
       type |-> "bytes", field |-> "ObjectID"],
      [oid |-> Undotted(<<1, 3, 6, 1, 2, 1, 1, 3, 0>>),
       type |-> "uint32", field |-> "UpTime"],
      [oid |-> Undotted(<<1, 3, 6, 1, 2, 1, 1, 4, 0>>),
       type |-> "bytes", field |-> "Contact"],
      [oid |-> Undotted(<<1, 3, 6, 1, 2, 1, 1, 5, 0>>),
       type |-> "bytes", field |-> "Name"],
      [oid |-> Undotted(<<1, 3, 6, 1, 2, 1, 1, 6, 0>>),
       type |-> "bytes", field |-> "Location"]>>

\* The loop of collectSystemInfo from its turn i on, lines 141-167;
\* variables is result.Variables.
RECURSIVE SystemInfoFrom(_, _, _)
SystemInfoFrom(info, i, variables) ==
    IF i > Len(SystemInfoCases) THEN info
    ELSE LET c == SystemInfoCases[i]
             set == /\ i <= Len(variables)
                    /\ variables[i].type = c.type
             val == IF c.field = "UpTime" THEN <<variables[i].val, 100>>
                    ELSE variables[i].val
         IN  SystemInfoFrom(IF set THEN [info EXCEPT ![c.field] = val]
                            ELSE info,
                            i + 1, variables)

\* collectSystemInfo after a GetValue without error.
collectSystemInfo(variables) == SystemInfoFrom(SystemInfoZero, 1, variables)

\* fmt.Sscanf(suffix, "%d", &index): an optional sign and the digits that
\* follow it; index stays 0 when there is none.
RECURSIVE LeadingDigits(_)
LeadingDigits(s) ==
    IF s = <<>> \/ ~IsDigit(Head(s)) THEN <<>>
    ELSE <<Head(s)>> \o LeadingDigits(Tail(s))

parseInterfaceIndex(suffix) ==
    LET signed == suffix # <<>> /\ Head(suffix) \in {"+", "-"}
        digits == LeadingDigits(IF signed THEN Tail(suffix) ELSE suffix)
    IN  IF digits = <<>> THEN 0
        ELSE IF signed /\ Head(suffix) = "-" THEN 0 - DigitsValue(digits)
        ELSE DigitsValue(digits)

\* int64(val) of a uint64.
ToInt64(v) == IF v >= UintHalf THEN (v - UintHalf) - UintHalf ELSE v

\* fmt.Sprintf("%02x:%02x:%02x:%02x:%02x:%02x", val[0], ..., val[5])
FormatMAC(val) ==
    Join([k \in 1..6 |-> HexEncodeToString(<<val[k]>>)], ":")

\* The cases of the switch of collectInterfaces, lines 202-249: the literal
\* the whole OID is compared with, the types asserted and the field.
InventoryInterfaceCases ==
    <<[oid |-> Undotted(<<1, 3, 6, 1, 2, 1, 2, 2, 1, 1>>),
       types |-> {"int"}, field |-> "Index"],
      [oid |-> Undotted(<<1, 3, 6, 1, 2, 1, 2, 2, 1, 2>>),
       types |-> {"bytes"}, field |-> "Description"],
      [oid |-> Undotted(<<1, 3, 6, 1, 2, 1, 2, 2, 1, 3>>),
       types |-> {"int"}, field |-> "Type"],
      [oid |-> Undotted(<<1, 3, 6, 1, 2, 1, 2, 2, 1, 4>>),
       types |-> {"int"}, field |-> "MTU"],
      [oid |-> Undotted(<<1, 3, 6, 1, 2, 1, 2, 2, 1, 5>>),
       types |-> {"uint64", "int"}, field |-> "Speed"],
      [oid |-> Undotted(<<1, 3, 6, 1, 2, 1, 2, 2, 1, 6>>),
       types |-> {"bytes"}, field |-> "MACAddress"],
      [oid |-> Undotted(<<1, 3, 6, 1, 2, 1, 2, 2, 1, 7>>),
       types |-> {"int"}, field |-> "AdminStatus"],
      [oid |-> Undotted(<<1, 3, 6, 1, 2, 1, 2, 2, 1, 8>>),
       types |-> {"int"}, field |-> "OperStatus"],
      [oid |-> Undotted(<<1, 3, 6, 1, 2, 1, 2, 2, 1, 10>>),
       types |-> {"uint64", "int"}, field |-> "InOctets"],
      [oid |-> Undotted(<<1, 3, 6, 1, 2, 1, 2, 2, 1, 16>>),
       types |-> {"uint64", "int"}, field |-> "OutOctets"]>>

\* The switch of collectInterfaces on one pair.
InterfaceSwitch(iface, oid, value) ==
    LET hits == {k \in 1..Len(InventoryInterfaceCases) :
                    InventoryInterfaceCases[k].oid = oid}
    IN  IF hits = {} THEN iface
        ELSE LET c == InventoryInterfaceCases[CHOOSE k \in hits : TRUE]
             IN  IF value.type \notin c.types THEN iface
                 ELSE IF c.field = "MACAddress"
                 THEN IF Len(value.val) = 6
                      THEN [iface EXCEPT !.MACAddress = FormatMAC(value.val)]
                      ELSE iface
                 ELSE IF value.type = "uint64"
                 THEN [iface EXCEPT ![c.field] = ToInt64(value.val)]
                 ELSE [iface EXCEPT ![c.field] = value.val]

\* The range over oidsMap of collectInterfaces, lines 184-250, in the order
\* the map yields its pairs.
RECURSIVE InterfaceDetailsFrom(_, _)
InterfaceDetailsFrom(details, order) ==
    IF order = <<>> THEN details
    ELSE LET pair == Head(order)
             fields == Split(pair.oid, ".")
             index == parseInterfaceIndex(fields[Len(fields)])
             iface == IF index \in DOMAIN details THEN details[index]
                      ELSE [InterfaceZero EXCEPT !.Index = index]
         IN  IF Len(fields) < 2 \/ index = 0
             THEN InterfaceDetailsFrom(details, Tail(order))
             ELSE InterfaceDetailsFrom(
                    [i \in DOMAIN details \cup {index} |->
                        IF i = index
                        THEN InterfaceSwitch(iface, pair.oid, pair.value)
                        ELSE details[i]],
                    Tail(order))

\* collectInterfaces after a Walk without error: order is the order of the
\* range over oidsMap, keyOrder that of the range over interfaceDetails.
collectInterfaces(order, keyOrder) ==
    LET details == InterfaceDetailsFrom(<<>>, order)
    IN  [k \in 1..Len(keyOrder) |-> details[keyOrder[k]]]

\* fmt.Sprintf("%d.%d.%d.%d", val[0], val[1], val[2], val[3])
FormatIP(val) == Join([k \in 1..4 |-> Itoa(val[k])], ".")

\* The range of collectIPAddresses, lines 279-294: acc is the slice
\* ipAddresses and the package-level currentIfIndex.
RECURSIVE IPAddressesFrom(_, _)
IPAddressesFrom(acc, order) ==
    IF order = <<>> THEN acc
    ELSE LET oid == Head(order).oid
             value == Head(order).value
             next ==
                IF oid = Undotted(<<1, 3, 6, 1, 2, 1, 4, 20, 1, 1>>) /\ value.type = "int"
                THEN [acc EXCEPT !.currentIfIndex = value.val]
                ELSE IF /\ oid = Undotted(<<1, 3, 6, 1, 2, 1, 4, 20, 1, 2>>)
                        /\ value.type = "bytes"
                        /\ Len(value.val) = 4
                THEN [acc EXCEPT !.ipAddresses =
                        Append(@, [IfIndex |-> acc.currentIfIndex,
                                   IP |-> FormatIP(value.val)])]
                ELSE acc
         IN  IPAddressesFrom(next, Tail(order))

\* collectIPAddresses after a Walk without error.
collectIPAddresses(order, ifIndex) ==
    IPAddressesFrom([ipAddresses |-> <<>>, currentIfIndex |-> ifIndex], order)

\* The cases of collectPhysicalEntities that write into the last entity.
EntityCases ==
    <<[oid |-> Undotted(<<1, 3, 6, 1, 2, 1, 47, 1, 1, 1, 1, 3>>),
       field |-> "Vendor"],
      [oid |-> Undotted(<<1, 3, 6, 1, 2, 1, 47, 1, 1, 1, 1, 5>>),
       field |-> "ModelName"],
      [oid |-> Undotted(<<1, 3, 6, 1, 2, 1, 47, 1, 1, 1, 1, 11>>),
       field |-> "SerialNumber"]>>

\* The range of collectPhysicalEntities, lines 312-343: acc is the slice
\* entities and the package-level currentEntityIndex.
RECURSIVE EntitiesFrom(_, _)
EntitiesFrom(acc, order) ==
    IF order = <<>> THEN acc
    ELSE LET oid == Head(order).oid
             value == Head(order).value
             hits == {k \in 1..Len(EntityCases) : EntityCases[k].oid = oid}
             next ==
                IF oid = Undotted(<<1, 3, 6, 1, 2, 1, 47, 1, 1, 1, 1, 2>>)
                THEN IF value.type = "bytes"
                     THEN [entities |->
                            Append(acc.entities,
                                   [Index |-> acc.currentEntityIndex + 1,
                                    Description |-> value.val,
                                    Vendor |-> "", ModelName |-> "",
                                    SerialNumber |-> ""]),
                           currentEntityIndex |-> acc.currentEntityIndex + 1]
                     ELSE acc
                ELSE IF /\ hits # {}
                        /\ Len(acc.entities) > 0
                        /\ value.type = "bytes"
                THEN [acc EXCEPT
                        !.entities[Len(acc.entities)]
                         [EntityCases[CHOOSE k \in hits : TRUE].field] =
                            value.val]
                ELSE acc
         IN  EntitiesFrom(next, Tail(order))

\* collectPhysicalEntities after a Walk without error; it sets
\* currentEntityIndex to 0 first.
collectPhysicalEntities(order) ==
    EntitiesFrom([entities |-> <<>>, currentEntityIndex |-> 0], order)

\* collectCPUMetrics after a GetValue without error: it takes the values
\* of its three OIDs that are in result.Variables and are uint32; <<>> for
\* nil, the percentages as quotients.
collectCPUMetrics(variables) ==
    LET taken(i) == IF i <= Len(variables) /\ variables[i].type = "uint32"
                    THEN variables[i].val ELSE 0
        user == taken(1)
        system == taken(2)
        idle == taken(3)
        totalTicks == user + system + idle
    IN  IF totalTicks > 0
        THEN <<[User |-> <<user * 100, totalTicks>>,
                System |-> <<system * 100, totalTicks>>,
                Idle |-> <<idle * 100, totalTicks>>]>>
        ELSE <<>>

\* collectMemoryMetrics after a GetValue without error: <<>> for nil.
collectMemoryMetrics(variables) ==
    LET taken(i) == IF i <= Len(variables) /\ variables[i].type = "int"
                    THEN variables[i].val ELSE 0
        metrics == [TotalSwap |-> taken(1), AvailSwap |-> taken(2)]
    IN  IF metrics.TotalSwap > 0 /\ metrics.AvailSwap >= 0
        THEN <<metrics>> ELSE <<>>

\* json.MarshalIndent of the result: a key tagged omitempty is left out
\* when its slice is empty or its pointer nil; a struct is never left out.
outputJSON(result) ==
    LET keys == {"system_info"}
                \cup (IF result.Interfaces # <<>> THEN {"interfaces"} ELSE {})
                \cup (IF result.IPAddresses # <<>> THEN {"ip_addresses"}
                      ELSE {})
                \cup (IF result.PhysicalEntities # <<>>
                      THEN {"physical_entities"} ELSE {})
                \cup (IF result.CPU # <<>> THEN {"cpu"} ELSE {})
                \cup (IF result.Memory # <<>> THEN {"memory"} ELSE {})
    IN  [k \in keys |->
            IF k = "system_info" THEN result.SystemInfo
            ELSE IF k = "interfaces" THEN result.Interfaces
            ELSE IF k = "ip_addresses" THEN result.IPAddresses
            ELSE IF k = "physical_entities" THEN result.PhysicalEntities
            ELSE IF k = "cpu" THEN result.CPU[1]
            ELSE result.Memory[1]]

\* The most pairs in one walk result of device_inventory.
MaxInventoryPairs == 2

\* What the agent can answer to the requests of device_inventory.  A Walk
\* gives its pairs under pdu.Name; the pairs whose key is the bare column
\* OID are the only ones the switches of collectIPAddresses and
\* collectPhysicalEntities match.
InventoryAnswers ==
    [SystemInfo |->
        {<<Bytes("Linux"), StringV("enterprises.8072"), Uint32V(12345),
           Bytes("admin"), Bytes("router1"), Bytes("lab")>>,
         <<Bytes("Linux"), StringV("enterprises.8072")>>},
     Interfaces |->
    {Row(OID.IfDescr, <<"3">>, Bytes("eth0")),
     Row(OID.IfDescr, <<"4">>, Bytes("eth1")),
     [oid |-> Undotted(<<1, 3, 6, 1, 2, 1, 2, 2, 1, 5>>),
      value |-> Uint64V(1000)]},
     IPAddresses |->
    {[oid |-> Dotted(<<1, 3, 6, 1, 2, 1, 4, 20, 1, 2, 10, 0, 0, 1>>),
      value |-> IntV(3)],
     [oid |-> Undotted(<<1, 3, 6, 1, 2, 1, 4, 20, 1, 1>>), value |-> IntV(3)],
     [oid |-> Undotted(<<1, 3, 6, 1, 2, 1, 4, 20, 1, 2>>),
      value |-> Bytes(<<10, 0, 0, 1>>)]},
     PhysicalEntities |->
    {[oid |-> Dotted(<<1, 3, 6, 1, 2, 1, 47, 1, 1, 1, 1, 2, 1>>),
      value |-> Bytes("chassis")],
     [oid |-> Undotted(<<1, 3, 6, 1, 2, 1, 47, 1, 1, 1, 1, 2>>), value |-> Bytes("chassis")],
     [oid |-> EntityCases[1].oid, value |-> Bytes("acme")]},
     CPU |->
    {<<Uint32V(10), Uint32V(20), Uint32V(70)>>,
     <<UintV(10), UintV(20), UintV(70)>>},
     Memory |->
    {<<IntV(2048), IntV(1024)>>,
     <<IntV(0), IntV(0)>>}]

\* The values of the flag -output.
OutputFormats == {"json", "xml"}

InventoryWalkResults(rows) ==
    {r \in SUBSET rows : Cardinality(r) <= MaxInventoryPairs}

\* What a collector has returned: its error and its value.
Collected(section, err, value) ==
    [section |-> section, err |-> err, value |-> value]

InitInventory ==
    /\ UsageOff
    /\ ScaleOff
    /\ InterfacesOff
    /\ ClientOff
    /\ dpc = "Start"
    /\ inventory = <<>>
    /\ inventoryErr = FALSE
    /\ collected = <<>>
    /\ currentIfIndex = 0
    /\ currentEntityIndex = 0
    /\ walked = <<>>
    /\ output = <<>>
    /\ SysDescrOff
    /\ BgpOff

\* main up to the call of CollectDeviceInventory and its line 72.
InventoryStart ==
    /\ dpc = "Start"
    /\ inventory' = <<InventoryResultZero>>
    /\ dpc' = "SystemInfo"
    /\ UNCHANGED <<inventoryErr, collected, currentIfIndex,
                   currentEntityIndex, output>>
    /\ UNCHANGED <<walked, notInventory>>

\* collectSystemInfo and lines 75-79.
CollectSystemInfo ==
    /\ dpc = "SystemInfo"
    /\ \/ /\ collected' = Append(collected,
                                 Collected("SystemInfo", TRUE, <<>>))
          /\ inventory' = <<>>
          /\ inventoryErr' = TRUE
          /\ dpc' = "Returned"
       \/ \E variables \in InventoryAnswers.SystemInfo :
            LET got == collectSystemInfo(variables) IN
            /\ collected' = Append(collected,
                                   Collected("SystemInfo", FALSE, got))
            /\ inventory' = <<[inventory[1] EXCEPT !.SystemInfo = got]>>
            /\ inventoryErr' = inventoryErr
            /\ dpc' = "Interfaces"
    /\ UNCHANGED <<currentIfIndex, currentEntityIndex, output>>
    /\ UNCHANGED <<walked, notInventory>>

\* collectInterfaces with its failure returned as that of the inventory.
CollectInterfaces_Fatal ==
    /\ dpc = "Interfaces"
    /\ \/ /\ collected' = Append(collected, Collected("Interfaces", TRUE, <<>>))
          /\ inventory' = <<>>
          /\ inventoryErr' = TRUE
          /\ dpc' = "Returned"
          /\ walked' = walked
          /\ UNCHANGED <<currentIfIndex, currentEntityIndex>>
       \/ \E r \in InventoryWalkResults(InventoryAnswers.Interfaces) :
          \E order \in RangeOrders(r) :
          \E keyOrder \in RangeOrders(DOMAIN InterfaceDetailsFrom(<<>>, order)) :
            LET got == collectInterfaces(order, keyOrder) IN
            /\ collected' = Append(collected,
                                   Collected("Interfaces", FALSE, got))
            /\ inventory' = <<[inventory[1] EXCEPT !.Interfaces = got]>>
            /\ inventoryErr' = inventoryErr
            /\ dpc' = "IPAddresses"
            /\ walked' = Append(walked, [section |-> "Interfaces", order |-> order])
            /\ UNCHANGED <<currentIfIndex, currentEntityIndex>>
    /\ UNCHANGED output
    /\ UNCHANGED notInventory

\* collectInterfaces and lines 82-87.
CollectInterfaces ==
    /\ dpc = "Interfaces"
    /\ \/ /\ collected' = Append(collected, Collected("Interfaces", TRUE, <<>>))
          /\ inventory' = inventory
          /\ inventoryErr' = inventoryErr
          /\ dpc' = "IPAddresses"
          /\ walked' = walked
          /\ UNCHANGED <<currentIfIndex, currentEntityIndex>>
       \/ \E r \in InventoryWalkResults(InventoryAnswers.Interfaces) :
          \E order \in RangeOrders(r) :
          \E keyOrder \in RangeOrders(DOMAIN InterfaceDetailsFrom(<<>>, order)) :
            LET got == collectInterfaces(order, keyOrder) IN
            /\ collected' = Append(collected,
                                   Collected("Interfaces", FALSE, got))
            /\ inventory' = <<[inventory[1] EXCEPT !.Interfaces = got]>>
            /\ inventoryErr' = inventoryErr
            /\ dpc' = "IPAddresses"
            /\ walked' = Append(walked, [section |-> "Interfaces", order |-> order])
            /\ UNCHANGED <<currentIfIndex, currentEntityIndex>>
    /\ UNCHANGED output
    /\ UNCHANGED notInventory

\* collectIPAddresses and lines 90-95.
CollectIPAddresses ==
    /\ dpc = "IPAddresses"
    /\ \/ /\ collected' = Append(collected, Collected("IPAddresses", TRUE, <<>>))
          /\ inventory' = inventory
          /\ inventoryErr' = inventoryErr
          /\ dpc' = "PhysicalEntities"
          /\ walked' = walked
          /\ UNCHANGED <<currentIfIndex, currentEntityIndex>>
       \/ \E r \in InventoryWalkResults(InventoryAnswers.IPAddresses) :
          \E order \in RangeOrders(r) :
            LET got == collectIPAddresses(order, currentIfIndex) IN
            /\ collected' = Append(collected,
                                   Collected("IPAddresses", FALSE,
                                             got.ipAddresses))
            /\ inventory' =
                <<[inventory[1] EXCEPT !.IPAddresses = got.ipAddresses]>>
            /\ inventoryErr' = inventoryErr
            /\ currentIfIndex' = got.currentIfIndex
            /\ currentEntityIndex' = currentEntityIndex
            /\ dpc' = "PhysicalEntities"
            /\ walked' = Append(walked, [section |-> "IPAddresses", order |-> order])
    /\ UNCHANGED output
    /\ UNCHANGED notInventory

\* collectPhysicalEntities and lines 98-103.
CollectPhysicalEntities ==
    /\ dpc = "PhysicalEntities"
    /\ \/ /\ collected' = Append(collected, Collected("PhysicalEntities", TRUE, <<>>))
          /\ inventory' = inventory
          /\ inventoryErr' = inventoryErr
          /\ dpc' = "CPU"
          /\ walked' = walked
          /\ UNCHANGED <<currentIfIndex, currentEntityIndex>>
       \/ \E r \in InventoryWalkResults(InventoryAnswers.PhysicalEntities) :
          \E order \in RangeOrders(r) :
            LET got == collectPhysicalEntities(order) IN
            /\ collected' = Append(collected,
                                   Collected("PhysicalEntities", FALSE,
                                             got.entities))
            /\ inventory' =
                <<[inventory[1] EXCEPT !.PhysicalEntities = got.entities]>>
            /\ inventoryErr' = inventoryErr
            /\ currentEntityIndex' = got.currentEntityIndex
            /\ currentIfIndex' = currentIfIndex
            /\ dpc' = "CPU"
            /\ walked' = Append(walked, [section |-> "PhysicalEntities", order |-> order])
    /\ UNCHANGED output
    /\ UNCHANGED notInventory

\* collectCPUMetrics and lines 106-111.
CollectCPUMetrics ==
    /\ dpc = "CPU"
    /\ \/ /\ collected' = Append(collected, Collected("CPU", TRUE, <<>>))
          /\ inventory' = inventory
          /\ inventoryErr' = inventoryErr
          /\ dpc' = "Memory"
          /\ UNCHANGED <<currentIfIndex, currentEntityIndex>>
       \/ \E variables \in InventoryAnswers.CPU :
            LET got == collectCPUMetrics(variables) IN
            /\ collected' = Append(collected, Collected("CPU", FALSE, got))
            /\ inventory' = IF got # <<>>
                            THEN <<[inventory[1] EXCEPT !.CPU = got]>>
                            ELSE inventory
            /\ inventoryErr' = inventoryErr
            /\ dpc' = "Memory"
            /\ UNCHANGED <<currentIfIndex, currentEntityIndex>>
    /\ UNCHANGED output
    /\ UNCHANGED <<walked, notInventory>>

\* collectMemoryMetrics and lines 114-121.
CollectMemoryMetrics ==
    /\ dpc = "Memory"
    /\ \/ /\ collected' = Append(collected, Collected("Memory", TRUE, <<>>))
          /\ inventory' = inventory
          /\ inventoryErr' = inventoryErr
          /\ dpc' = "Returned"
          /\ UNCHANGED <<currentIfIndex, currentEntityIndex>>
       \/ \E variables \in InventoryAnswers.Memory :
            LET got == collectMemoryMetrics(variables) IN
            /\ collected' = Append(collected, Collected("Memory", FALSE, got))
            /\ inventory' = IF got # <<>>
                            THEN <<[inventory[1] EXCEPT !.Memory = got]>>
                            ELSE inventory
            /\ inventoryErr' = inventoryErr
            /\ dpc' = "Returned"
            /\ UNCHANGED <<currentIfIndex, currentEntityIndex>>
    /\ UNCHANGED output
    /\ UNCHANGED <<walked, notInventory>>

\* main after the call, lines 445-455: log.Fatalf on an error or on an
\* output format that is not json, outputJSON otherwise.
InventoryOutput ==
    /\ dpc = "Returned"
    /\ \E format \in OutputFormats :
        IF inventoryErr \/ format # "json"
        THEN dpc' = "Fatal" /\ output' = output
        ELSE dpc' = "Exited" /\ output' = <<outputJSON(inventory[1])>>
    /\ UNCHANGED <<inventory, inventoryErr, collected, currentIfIndex,
                   currentEntityIndex>>
    /\ UNCHANGED <<walked, notInventory>>

NextInventory ==
    \/ InventoryStart
    \/ CollectSystemInfo
    \/ CollectInterfaces
    \/ CollectIPAddresses
    \/ CollectPhysicalEntities
    \/ CollectCPUMetrics
    \/ CollectMemoryMetrics
    \/ InventoryOutput

SpecInventory == InitInventory /\ [][NextInventory]_vars

\* ------------------------------------------------------------ check_sysdescr
\* sysDescr texts a device answers with: "Cisco", "Linux" and the empty one.
SysDescrValues ==
    {<<"C", "i", "s", "c", "o">>, <<"L", "i", "n", "u", "x">>, <<>>}

\* Values of -sysDescrPattern: none, "Cisco", "^Li", "x$", "C.s", "^$" and
\* "(Cisco", which does not compile.
SysDescrPatterns ==
    {<<>>, <<"C", "i", "s", "c", "o">>, <<"^", "L", "i">>, <<"x", "$">>,
     <<"C", ".", "s">>, <<"^", "$">>, <<"(", "C", "i", "s", "c", "o">>}

\* What snmpClient.GetValue(oids) returns at line 30: an error, or a packet
\* and the latency measured; the packet holds the sysDescr as an octet
\* string, a null (NoSuchObject), a value of another type, or nothing.
SysDescrAnswers ==
    {[err |-> TRUE, Variables |-> <<>>, latency |-> 0]}
    \cup {[err |-> FALSE, Variables |-> v, latency |-> l] :
            v \in {<<Bytes(d)>> : d \in SysDescrValues}
                    \cup {<<NilV>>, <<IntV(7)>>, <<>>},
            l \in 1..MaxLatencyTicks}

\* regexp.MatchString(pattern, s) on the patterns above: literal characters
\* and "." (any character) searched anywhere in s, "^" first and "$" last
\* anchoring the search; a "(" left open is a syntax error.
MatchString(pattern, s) ==
    IF \E k \in 1..Len(pattern) : pattern[k] = "("
    THEN [err |-> TRUE, match |-> FALSE]
    ELSE
      LET atStart == Len(pattern) > 0 /\ pattern[1] = "^"
          atEnd == Len(pattern) > 0 /\ pattern[Len(pattern)] = "$"
          core == SubSeq(pattern, IF atStart THEN 2 ELSE 1,
                         IF atEnd THEN Len(pattern) - 1 ELSE Len(pattern))
          starts == IF atStart THEN {1} ELSE 1..(Len(s) + 1)
      IN [err |-> FALSE,
          match |-> \E i \in starts :
                        /\ i + Len(core) - 1 <= Len(s)
                        /\ \A k \in 1..Len(core) :
                                core[k] = "." \/ core[k] = s[i + k - 1]
                        /\ atEnd => i + Len(core) - 1 = Len(s)]

\* CheckSysDescr with a pattern that does not compile taken as no pattern.
CheckSysDescr_BadPatternAccepted(answer, expectedSysDescrRegExp, enablePerfData) ==
    IF answer.err
    THEN [kind |-> "result", state |-> Critical,
          message |-> [text |-> "failed to return data", pattern |-> <<>>,
                       sysDescr |-> <<>>],
          perf |-> {}]
    ELSE IF Len(answer.Variables) < 1 \/ answer.Variables[1].type # "bytes"
    THEN [kind |-> "panic"]
    ELSE
      LET sysDescr == answer.Variables[1].val
          m == MatchString(expectedSysDescrRegExp, sysDescr)
      IN IF expectedSysDescrRegExp # <<>> /\ ~m.err /\ ~m.match
         THEN [kind |-> "result", state |-> Critical,
               message |-> [text |-> "does not match expected pattern",
                            pattern |-> expectedSysDescrRegExp,
                            sysDescr |-> sysDescr],
               perf |-> {}]
         ELSE [kind |-> "result", state |-> OK,
               message |-> [text |-> "", pattern |-> <<>>,
                            sysDescr |-> sysDescr],
               perf |-> IF enablePerfData
                        THEN {[name |-> "latency", Value |-> answer.latency,
                               UnitOM |-> "seconds"]}
                        ELSE {}]

\* CheckSysDescr(snmpClient, expectedSysDescrRegExp, enablePerfData) on the
\* answer of GetValue: the CheckResult it returns, or a panic of the index
\* expression or type assertion of line 39.  The message is kept as its
\* text and the values formatted into it; the latency is kept in ticks.
CheckSysDescr(answer, expectedSysDescrRegExp, enablePerfData) ==
    IF answer.err
    THEN [kind |-> "result", state |-> Critical,
          message |-> [text |-> "failed to return data", pattern |-> <<>>,
                       sysDescr |-> <<>>],
          perf |-> {}]
    ELSE IF Len(answer.Variables) < 1 \/ answer.Variables[1].type # "bytes"
    THEN [kind |-> "panic"]
    ELSE
      LET sysDescr == answer.Variables[1].val
          m == MatchString(expectedSysDescrRegExp, sysDescr)
      IN IF expectedSysDescrRegExp # <<>> /\ (m.err \/ ~m.match)
         THEN [kind |-> "result", state |-> Critical,
               message |-> [text |-> "does not match expected pattern",
                            pattern |-> expectedSysDescrRegExp,
                            sysDescr |-> sysDescr],
               perf |-> {}]
         ELSE [kind |-> "result", state |-> OK,
               message |-> [text |-> "", pattern |-> <<>>,
                            sysDescr |-> sysDescr],
               perf |-> IF enablePerfData
                        THEN {[name |-> "latency", Value |-> answer.latency,
                               UnitOM |-> "seconds"]}
                        ELSE {}]

InitSysDescr ==
    /\ sdpc = "Start"
    /\ sdFlags = NoSysDescrFlags
    /\ sdAnswer = <<>>
    /\ sdResult = <<>>
    /\ sdSent = <<>>
    /\ UsageOff
    /\ ScaleOff
    /\ InterfacesOff
    /\ ClientOff
    /\ InventoryOff
    /\ BgpOff

\* flag.Parse and the construction of the client, lines 61-70.
SysDescrParseFlags ==
    /\ sdpc = "Start"
    /\ \E p \in SysDescrPatterns, e \in BOOLEAN :
            sdFlags' = [sysDescrPattern |-> p, enablePerfData |-> e]
    /\ sdpc' = "Checking"
    /\ UNCHANGED <<sdAnswer, sdResult, sdSent, notSysDescr>>

\* The call of CheckSysDescr, line 71.
SysDescrCheck ==
    /\ sdpc = "Checking"
    /\ \E answer \in SysDescrAnswers :
        LET result == CheckSysDescr(answer, sdFlags.sysDescrPattern,
                                    sdFlags.enablePerfData)
        IN /\ sdAnswer' = <<answer>>
           /\ IF result.kind = "panic"
              THEN sdpc' = "Crashed" /\ sdResult' = sdResult
              ELSE sdpc' = "Returned" /\ sdResult' = <<result>>
    /\ UNCHANGED <<sdFlags, sdSent, notSysDescr>>

\* result.SendResult(), line 72.
SysDescrSend ==
    /\ sdpc = "Returned"
    /\ sdSent' = Append(sdSent, sdResult[1])
    /\ sdpc' = "Exited"
    /\ UNCHANGED <<sdFlags, sdAnswer, sdResult, notSysDescr>>

NextSysDescr ==
    \/ SysDescrParseFlags
    \/ SysDescrCheck
    \/ SysDescrSend

SpecSysDescr == InitSysDescr /\ [][NextSysDescr]_vars

\* ----------------------------------------------------------- check_bgp_peers
\* The largest number of rows of the peer table.
MaxBgpPeers == 2

\* A value of Go type int64, the type lines 53, 63 and 64 assert.
Int64V(v) == [type |-> "int64", val |-> v]

\* What snmpClient.GetTable(indexOID) returns at line 45: an error, or a
\* packet with one variable per row of the peer table, each an int64 or a
\* value of another type.
BgpIndexAnswers ==
    LET values == {Int64V(1), Int64V(2), IntV(3)} IN
    {[err |-> TRUE, Variables |-> <<>>]}
    \cup {[err |-> FALSE, Variables |-> v] :
            v \in UNION {[1..n -> values] : n \in 0..MaxBgpPeers}}

\* What snmpClient.GetValues of the two status OIDs of a peer returns at
\* line 58: an error, or a packet with the admin and the operational status
\* (1 or 2), with values of another type, or with one variable only.
BgpStatusAnswers ==
    {[err |-> TRUE, Variables |-> <<>>]}
    \cup {[err |-> FALSE, Variables |-> <<Int64V(a), Int64V(o)>>] :
            a \in {1, 2}, o \in {1, 2}}
    \cup {[err |-> FALSE, Variables |-> <<IntV(1), IntV(1)>>],
          [err |-> FALSE, Variables |-> <<Int64V(1)>>]}

\* The count with the peers whose statuses are equal counted instead.
MismatchCount_Matching(ps) ==
    Cardinality({i \in 1..Len(ps) :
                    ps[i].AdminStatus = ps[i].OperationalStatus})

\* mismatchCount after the loop of lines 95-100.
MismatchCount(ps) ==
    Cardinality({i \in 1..Len(ps) :
                    ps[i].AdminStatus # ps[i].OperationalStatus})

InitBgp ==
    /\ bpc = "Start"
    /\ indexResult = <<>>
    /\ bgpPos = 0
    /\ bgpQueries = <<>>
    /\ peers = <<>>
    /\ bgpSent = <<>>
    /\ UsageOff
    /\ ScaleOff
    /\ InterfacesOff
    /\ ClientOff
    /\ InventoryOff
    /\ SysDescrOff

\* main up to the call of GetBgpPeers and the fetch of the peer indices,
\* lines 77-50.
BgpGetTable ==
    /\ bpc = "Start"
    /\ \E answer \in BgpIndexAnswers :
        /\ indexResult' = <<answer>>
        /\ IF answer.err
           THEN bpc' = "Failed" /\ bgpPos' = bgpPos
           ELSE bpc' = "Ranging" /\ bgpPos' = 1
    /\ UNCHANGED <<bgpQueries, peers, bgpSent, notBgp>>

\* One pass of the loop over indexResult.Variables, lines 52-71: the query
\* of the two statuses of the peer and the append of its BgpPeer.
BgpQueryPeer ==
    /\ bpc = "Ranging"
    /\ bgpPos <= Len(indexResult[1].Variables)
    /\ LET index == indexResult[1].Variables[bgpPos] IN
       IF index.type # "int64"
       THEN /\ bpc' = "Crashed"
            /\ UNCHANGED <<bgpPos, bgpQueries, peers>>
       ELSE \E answer \in BgpStatusAnswers :
            LET indexStr == Itoa(index.val)
                adminOID == Dotted(<<1, 3, 6, 1, 2, 1, 15, 4, 1, 8>>)
                                \o <<".">> \o indexStr
                operationalOID == Dotted(<<1, 3, 6, 1, 2, 1, 15, 4, 1, 9>>)
                                \o <<".">> \o indexStr
                v == answer.Variables
            IN /\ bgpQueries' = Append(bgpQueries,
                                    [oids |-> <<adminOID, operationalOID>>,
                                     answer |-> answer])
               /\ IF answer.err
                  THEN /\ bgpPos' = bgpPos + 1
                       /\ UNCHANGED <<bpc, peers>>
                  ELSE IF \/ Len(v) < 2
                          \/ v[1].type # "int64"
                          \/ v[2].type # "int64"
                  THEN /\ bpc' = "Crashed"
                       /\ UNCHANGED <<bgpPos, peers>>
                  ELSE /\ peers' = Append(peers,
                                    [Index |-> index.val,
                                     AdminStatus |-> v[1].val,
                                     OperationalStatus |-> v[2].val])
                       /\ bgpPos' = bgpPos + 1
                       /\ bpc' = bpc
    /\ UNCHANGED <<indexResult, bgpSent, notBgp>>

\* The return of GetBgpPeers and the rest of main, lines 73 and 86-114:
\* the result for a failed fetch of the indices, or the count of the
\* mismatches and the result for it.  The message is kept as its text and
\* the number formatted into it.
BgpReport ==
    /\ \/ bpc = "Failed"
       \/ bpc = "Ranging" /\ bgpPos > Len(indexResult[1].Variables)
    /\ LET mismatchCount == MismatchCount(peers) IN
       bgpSent' = Append(bgpSent,
            IF bpc = "Failed"
            THEN [state |-> Critical,
                  message |-> [text |-> "failed to return BGP peer data",
                               count |-> 0],
                  perf |-> {}]
            ELSE IF mismatchCount > 0
            THEN [state |-> Critical,
                  message |-> [text |-> "admin status mismatch",
                               count |-> mismatchCount],
                  perf |-> {[name |-> "mismatched_peers",
                             Value |-> mismatchCount, UnitOM |-> "count"]}]
            ELSE [state |-> OK,
                  message |-> [text |-> "matching admin and operational status",
                               count |-> Len(peers)],
                  perf |-> {[name |-> "total_peers",
                             Value |-> Len(peers), UnitOM |-> "count"]}])
    /\ bpc' = "Exited"
    /\ UNCHANGED <<indexResult, bgpPos, bgpQueries, peers, notBgp>>

NextBgp ==
    \/ BgpGetTable
    \/ BgpQueryPeer
    \/ BgpReport

SpecBgp == InitBgp /\ [][NextBgp]_vars

\* ------------------------------------------- convertToScale on its own
\* The octet rates handed to convertToScale: the neighbourhood of every
\* unit boundary (125, 125000 and 125000000 octets a second are 10^3, 10^6
\* and 10^9 bits a second) and of the rate whose product by 8 no longer
\* fits the word.
ScaleNeighbourhood == 10
ScaleInputs ==
    (0..ScaleNeighbourhood)
    \cup UNION {(b - ScaleNeighbourhood)..(b + ScaleNeighbourhood) :
                    b \in {125, 125000, 125000000}}
    \cup {UintMax \div 8, (UintMax \div 8) + 1, UintMax}

InitScale ==
    /\ UsageOff
    /\ InterfacesOff
    /\ ClientOff
    /\ InventoryOff
    /\ scaleIn \in ScaleInputs
    /\ scaleOut = <<>>
    /\ SysDescrOff
    /\ BgpOff

\* out, unit := convertToScale(value)
Convert ==
    /\ scaleOut = <<>>
    /\ scaleOut' = <<convertToScale(scaleIn)>>
    /\ UNCHANGED <<scaleIn, notScale>>

NextScale ==
    \/ Convert

SpecScale == InitScale /\ [][NextScale]_vars

\* ------------------------------------------------------------ observations
\* main has returned from DetermineInterfaceUsage and sent its result.
Evaluated ==
    /\ pc = "Terminal"
    /\ trace[Len(trace) - 1] = "Evaluating"

\* main has left the evaluation, with a result or with a panic.
LeftEvaluation ==
    /\ pc \in {"Terminal", "Crashed"}
    /\ trace[Len(trace) - 1] = "Evaluating"

\* main has left a collection without a sample.
LeftCollectionFailed ==
    /\ pc \in {"Terminal", "Crashed"}
    /\ trace[Len(trace) - 1] \in {"CollectingFirst", "CollectingSecond"}

\* The four sub-conditions on the numbers the result shows.
InboundCritical ==
    \/ sent[1].message.In[1] > flags.critIn
    \/ sent[1].message.HCIn[1] > flags.critIn
InboundWarning ==
    \/ sent[1].message.In[1] > flags.warnIn
    \/ sent[1].message.HCIn[1] > flags.warnIn
OutboundCritical ==
    \/ sent[1].message.Out[1] > flags.critOut
    \/ sent[1].message.HCOut[1] > flags.critOut
OutboundWarning ==
    \/ sent[1].message.Out[1] > flags.warnOut
    \/ sent[1].message.HCOut[1] > flags.warnOut

CitesInbound == sent[1].message.prefix = "Inbound exceeds threshold "
CitesOutbound == sent[1].message.prefix = "Outbound exceeds threshold "
CitesNothing == sent[1].message.prefix = ""

\* The elapsed time between the two samples, in ticks.
ElapsedTicks == measure2[1].Timestamp - measure1[1].Timestamp

\* No counter of the second sample is below that of the first.
NoCounterDecreased ==
    /\ measure2[1].In >= measure1[1].In
    /\ measure2[1].Out >= measure1[1].Out
    /\ measure2[1].HCIn >= measure1[1].HCIn
    /\ measure2[1].HCOut >= measure1[1].HCOut

\* ------------------------------------------------------------------ claims
\* C1: the verdict of DetermineInterfaceUsage is that of the first
\* condition that holds in the order inbound-critical, inbound-warning,
\* outbound-critical, outbound-warning, else OK; when the inbound critical
\* and warning conditions both hold it is CRITICAL citing inbound, whatever
\* the outbound numbers and thresholds are.
C1_FixedOrder ==
    Evaluated =>
        LET conds == <<InboundCritical, InboundWarning,
                       OutboundCritical, OutboundWarning, TRUE>>
            states == <<Critical, Warning, Critical, Warning, OK>>
            cites == <<CitesInbound, CitesInbound,
                       CitesOutbound, CitesOutbound, CitesNothing>>
        IN /\ \A i \in 1..5 :
                (conds[i] /\ \A j \in 1..(i - 1) : ~conds[j])
                    => (sent[1].state = states[i] /\ cites[i])
           /\ (InboundCritical /\ InboundWarning)
                    => (sent[1].state = Critical /\ CitesInbound)

C1_Witness ==
    /\ Evaluated
    /\ flags.warnIn > 0 /\ flags.critIn > flags.warnIn
    /\ flags.warnOut > 0 /\ flags.critOut > flags.warnOut
    /\ sent[1].message.Out[2] = "Kbps"
    /\ InboundCritical /\ InboundWarning
    /\ OutboundWarning /\ ~OutboundCritical
    /\ sent[1].state = Critical /\ CitesInbound

\* C2: a threshold of zero is not configured and its comparison is
\* skipped: with warnIn, critIn, warnOut and critOut all 0 the verdict is
\* OK whatever the rates are.
C2_ZeroThresholdsGiveOK ==
    (/\ Evaluated
     /\ flags.warnIn = 0 /\ flags.critIn = 0
     /\ flags.warnOut = 0 /\ flags.critOut = 0)
        => sent[1].state = OK

\* All four thresholds are configured, each critical one above its warning.
AllThresholdsConfigured ==
    /\ flags.warnIn > 0 /\ flags.critIn > flags.warnIn
    /\ flags.warnOut > 0 /\ flags.critOut > flags.warnOut

\* C3 as stated: the verdict state is the most severe of the four
\* sub-conditions, so a critical sub-condition of either direction always
\* gives CRITICAL, also when the other direction only exceeds its warning
\* boundary.
C3_MostSevere ==
    (Evaluated /\ AllThresholdsConfigured /\ NoCounterDecreased) =>
        /\ (InboundCritical \/ OutboundCritical) => sent[1].state = Critical
        /\ (InboundWarning \/ OutboundWarning) => sent[1].state # OK

\* C3 as amended: an inbound critical sub-condition always gives CRITICAL;
\* an outbound critical sub-condition gives CRITICAL unless the inbound
\* warning sub-condition holds without the inbound critical one, and then
\* the verdict is WARNING citing inbound; a sub-condition that holds is
\* never reported as OK.
C3_InboundFirst ==
    Evaluated =>
        /\ InboundCritical => sent[1].state = Critical
        /\ (OutboundCritical /\ ~InboundCritical /\ ~InboundWarning)
                => sent[1].state = Critical
        /\ (OutboundCritical /\ ~InboundCritical /\ InboundWarning)
                => (sent[1].state = Warning /\ CitesInbound)
        /\ (\/ InboundCritical \/ InboundWarning
            \/ OutboundCritical \/ OutboundWarning) => sent[1].state # OK

C3_Witness ==
    /\ Evaluated
    /\ AllThresholdsConfigured
    /\ NoCounterDecreased
    /\ OutboundCritical /\ InboundWarning /\ ~InboundCritical
    /\ sent[1].state = Warning /\ CitesInbound

\* delta / period for a period of ticks / TicksPerSecond seconds, rounded
\* down to a whole number of octets per second.
PerSecond(delta, ticks) == (delta * TicksPerSecond) \div ticks

\* C4: for a second sample later than the first (here by a second or
\* more) and counters that did not decrease, each of the rates in, out,
\* hcIn, hcOut is the difference of the counter divided by the elapsed,
\* possibly fractional, seconds.
C4_RateIsDeltaOverPeriod ==
    (LeftEvaluation /\ ElapsedTicks >= TicksPerSecond /\ NoCounterDecreased)
    =>
        /\ rates # <<>>
        /\ rates[1].in =
            PerSecond(measure2[1].In - measure1[1].In, ElapsedTicks)
        /\ rates[1].out =
            PerSecond(measure2[1].Out - measure1[1].Out, ElapsedTicks)
        /\ rates[1].hcIn =
            PerSecond(measure2[1].HCIn - measure1[1].HCIn, ElapsedTicks)
        /\ rates[1].hcOut =
            PerSecond(measure2[1].HCOut - measure1[1].HCOut, ElapsedTicks)

\* C5: when a 32-bit counter (In, Out) is lower in the second sample, the
\* delta behind its rate is the 32-bit wraparound distance
\* (2^32 - first) + second, below 2^32, and not one taken modulo a wider
\* word.
C5_Wraparound32 ==
    (Evaluated /\ rates # <<>>) =>
        /\ measure2[1].In < measure1[1].In =>
            rates[1].in =
                ((Counter32Modulus - measure1[1].In) + measure2[1].In)
                    \div UintPeriod(ElapsedTicks)
        /\ measure2[1].Out < measure1[1].Out =>
            rates[1].out =
                ((Counter32Modulus - measure1[1].Out) + measure2[1].Out)
                    \div UintPeriod(ElapsedTicks)

\* C6: when a high-capacity counter (HCIn, HCOut) is lower in the second
\* sample, the subtraction is not wrapped modulo the word size into a huge
\* positive delta that is used as the rate: the rate times the period is at
\* most what the counter has counted since it restarted.
C6_NoSilentWrap64 ==
    (Evaluated /\ rates # <<>>) =>
        /\ measure2[1].HCIn < measure1[1].HCIn =>
            rates[1].hcIn * UintPeriod(ElapsedTicks) <= measure2[1].HCIn
        /\ measure2[1].HCOut < measure1[1].HCOut =>
            rates[1].hcOut * UintPeriod(ElapsedTicks) <= measure2[1].HCOut

\* C7: the evaluation never divides by a zero period: when less than one
\* second has elapsed between the samples it ends with a
\* CRITICAL or UNKNOWN verdict and computes no rate.
C7_ZeroPeriodFails ==
    (LeftEvaluation /\ ElapsedTicks < TicksPerSecond) =>
        /\ pc = "Terminal"
        /\ Len(sent) = 1
        /\ sent[1].state \in {Critical, "UNKNOWN"}

\* C8: whatever the device answers, a run of check_interface_usage never
\* ends in an unhandled crash while decoding a sample.
C8_NoCrashOnDecode ==
    ~(pc = "Crashed" /\ trace[Len(trace) - 1] # "Evaluating")

\* C9: a transport or decode failure of a collection goes directly to the
\* terminal CRITICAL verdict: exactly one verdict is sent, it is CRITICAL
\* and names the target, nothing is evaluated, and after a failed first
\* sample there is no delay and no second collection.
C9_FailureIsTerminalCritical ==
    LeftCollectionFailed =>
        /\ pc = "Terminal"
        /\ Len(sent) = 1
        /\ sent[1].state = Critical
        /\ sent[1].message.name = Target
        /\ rates = <<>>
        /\ (measure1 = <<>> =>
                trace = <<"Start", "CollectingFirst", "Terminal">>)
        /\ (measure1 # <<>> =>
                trace = <<"Start", "CollectingFirst", "Waiting",
                          "CollectingSecond", "Terminal">>)

\* C10: when both samples are collected the run passes through Start,
\* Collecting (first), Waiting, Collecting (second), Evaluating and
\* Terminal in this order, the second sample is taken after the first and
\* the whole delay, and exactly one verdict is sent.
C10_SuccessPath ==
    (pc \in {"Terminal", "Crashed"} /\ measure1 # <<>> /\ measure2 # <<>>) =>
        /\ trace = <<"Start", "CollectingFirst", "Waiting",
                     "CollectingSecond", "Evaluating", "Terminal">>
        /\ ElapsedTicks > flags.delay * TicksPerSecond
        /\ Len(sent) = 1

InterfacesReturned == ipc \in {"Returned", "Exited"} /\ checkResult # <<>>
InterfacesOK == InterfacesReturned /\ checkResult[1].state = OK

\* The pairs of all walk results and those the range has yielded.
WalkedPairs == UNION {walks[k].result : k \in 1..Len(walks)}
RangedPairs == WalkedPairs \ pending

\* The last field of an OID and the OID without it.
Suffix(oid) == LET fields == Split(oid, ".") IN fields[Len(fields)]
Column(oid) ==
    LET fields == Split(oid, ".")
    IN  Join(SubSeq(fields, 1, Len(fields) - 1), ".")

\* The suffix is the numeral of a non-negative integer.
IsIndex(suffix) ==
    /\ suffix # <<>>
    /\ \A i \in 1..Len(suffix) : IsDigit(suffix[i])

\* The column has a case in the switch; the type that case asserts.
KnownColumn(column) ==
    \E k \in 1..Len(InterfaceCases) : InterfaceCases[k].oid = column
ExpectedType(column) ==
    InterfaceCases[CHOOSE k \in 1..Len(InterfaceCases) :
                        InterfaceCases[k].oid = column].type

\* The field the case of the column assigns.
CaseField(column) ==
    InterfaceCases[CHOOSE k \in 1..Len(InterfaceCases) :
                        InterfaceCases[k].oid = column].field

\* The field of InterfaceDetail that carries the name of the column.
FieldNamedBy(column) ==
    IF column = OID.IfInBroadcastPkts THEN "InBroadcastPkts"
    ELSE CaseField(column)

WellTyped(pair) ==
    /\ KnownColumn(Column(pair.oid))
    /\ pair.value.type = ExpectedType(Column(pair.oid))
Mistyped(pair) ==
    /\ KnownColumn(Column(pair.oid))
    /\ pair.value.type # ExpectedType(Column(pair.oid))

\* The records assembled from a set of pairs ranged over in one fixed order.
RECURSIVE AssembleAll(_, _)
AssembleAll(ifaces, pairs) ==
    IF pairs = {} THEN ifaces
    ELSE LET pair == CHOOSE q \in pairs : TRUE
         IN  AssembleAll(AssemblePair(ifaces, pair.oid, pair.value).interfaces,
                         pairs \ {pair})

RECURSIVE AssembleWalks(_, _)
AssembleWalks(ifaces, ws) ==
    IF ws = <<>> THEN ifaces
    ELSE AssembleWalks(AssembleAll(ifaces, Head(ws).result), Tail(ws))

\* The step leaves every record as it was and a record it creates zero.
RecordsKept ==
    \A i \in DOMAIN interfaces' :
        interfaces'[i] = IF i \in DOMAIN interfaces THEN interfaces[i]
                         ELSE InterfaceDetailZero

\* ------------------------------------------------------------------ C12
\* C12: CheckInterfaceMetrics assembles exactly one record per trailing
\* index and accumulates the fields of both walked tables in it: every
\* well-typed value of a known column is in the field its column names of
\* the record of its index, and the records are those of any one fixed
\* order of iteration.
C12_OneRecordPerIndex ==
    InterfacesOK =>
        /\ DOMAIN interfaces = {Atoi(Suffix(p.oid)).val : p \in WalkedPairs}
        /\ \A p \in WalkedPairs :
            WellTyped(p) =>
                interfaces[Atoi(Suffix(p.oid)).val]
                          [FieldNamedBy(Column(p.oid))] = p.value.val
        /\ interfaces = AssembleWalks(<<>>, walks)

\* ------------------------------------------------------------------ C13
\* C13: at every point of the assembly every populated field of the record
\* under index i holds a value walked under an OID of that field's column
\* whose trailing numeric component is i.
C13_IndexNeverMerged ==
    \A i \in DOMAIN interfaces : \A f \in DOMAIN InterfaceDetailZero :
        interfaces[i][f] # InterfaceDetailZero[f] =>
            \E p \in WalkedPairs :
                LET parsed == Atoi(Suffix(p.oid))
                    column == Column(p.oid)
                IN  /\ ~parsed.err
                    /\ parsed.val = i
                    /\ KnownColumn(column)
                    /\ CaseField(column) = f
                    /\ p.value.val = interfaces[i][f]

\* Two interfaces have been assembled from both tables.
C13_Witness ==
    /\ DOMAIN interfaces = {3, 4}
    /\ interfaces[3].Description = "eth0"
    /\ interfaces[3].HCInOctets = 500
    /\ interfaces[4].Description = "eth1"
    /\ interfaces[4].HCInOctets = 600

\* ------------------------------------------------------------------ C14
\* C14: when the range has met an OID whose suffix is not the numeral of a
\* non-negative integer, the check has ended CRITICAL without a listing and
\* no record exists but those of the well-formed entries.
C14_MalformedIndexFails ==
    (InterfacesReturned /\ \E p \in RangedPairs : ~IsIndex(Suffix(p.oid))) =>
        /\ checkResult[1].state = Critical
        /\ checkResult[1].listing = <<>>
        /\ \A i \in DOMAIN interfaces :
            \E p \in RangedPairs :
                IsIndex(Suffix(p.oid)) /\ DigitsValue(Suffix(p.oid)) = i

\* ------------------------------------------------------------------ C15
\* C15: the turn of the range that meets a value of another wire type than
\* its known column expects changes no field of any record (a record it
\* creates is zero) and raises no failure, and a check that met such values
\* and neither a failed walk nor a malformed index ends with OK.
C15_Step ==
    \A p \in pending \ pending' :
        (Mistyped(p) /\ ~Atoi(Suffix(p.oid)).err) =>
            /\ RecordsKept
            /\ ipc' = "Range"
            /\ checkResult' = checkResult

C15_StillOK ==
    (/\ InterfacesReturned
     /\ \E p \in RangedPairs : Mistyped(p)
     /\ \A k \in 1..Len(walks) : ~walks[k].err
     /\ \A p \in RangedPairs : ~Atoi(Suffix(p.oid)).err) =>
        checkResult[1].state = OK

C15_NeverCoerced == [][C15_Step]_vars /\ []C15_StillOK

\* A check that met ifSpeed.3 as an int ended OK with the speed unset and
\* the description of the same interface set.
C15_Witness ==
    /\ InterfacesOK
    /\ Row(OID.IfSpeed, <<"3">>, IntV(100000)) \in WalkedPairs
    /\ interfaces[3].Speed = 0
    /\ interfaces[3].Description = "eth0"

\* ------------------------------------------------------------------ C16
\* C16: the turn of the range that meets an OID of no known column changes
\* no field of any record (a record it creates is zero) and raises no
\* failure, and a check that met such OIDs and neither a failed walk nor a
\* malformed index ends with OK.
C16_Step ==
    \A p \in pending \ pending' :
        (~KnownColumn(Column(p.oid)) /\ ~Atoi(Suffix(p.oid)).err) =>
            /\ RecordsKept
            /\ ipc' = "Range"
            /\ checkResult' = checkResult

C16_StillOK ==
    (/\ InterfacesReturned
     /\ \E p \in RangedPairs : ~KnownColumn(Column(p.oid))
     /\ \A k \in 1..Len(walks) : ~walks[k].err
     /\ \A p \in RangedPairs : ~Atoi(Suffix(p.oid)).err) =>
        checkResult[1].state = OK

C16_UnknownDropped == [][C16_Step]_vars /\ []C16_StillOK

\* A check that met ifInNUcastPkts.3 ended OK with the fields of
\* interface 3 set from the known columns.
C16_Witness ==
    /\ InterfacesOK
    /\ Row(ColumnIfInNUcastPkts, <<"3">>, UintV(12)) \in WalkedPairs
    /\ interfaces[3].Description = "eth0"
    /\ interfaces[3].Speed = 100000

\* ------------------------------------------------------------------ C17
\* C17: the listing of the OK message is in ascending order of index.
C17_AscendingListing ==
    InterfacesOK =>
        \A j, k \in 1..Len(checkResult[1].listing) :
            j < k => checkResult[1].listing[j].index
                        < checkResult[1].listing[k].index

\* ------------------------------------------------------------------ C18
\* C18: the base tables are walked in their order, each at most once; a
\* failed walk is the last walk and the check has returned CRITICAL without
\* a listing right after it; OK is the result only when every base table
\* has been walked without an error; what is sent is what was returned.
C18_WalkFailureTerminal ==
    /\ Len(walks) <= Len(baseOIDs)
    /\ \A k \in 1..Len(walks) :
        /\ walks[k].rootOid = baseOIDs[k]
        /\ walks[k].err =>
            /\ k = Len(walks)
            /\ InterfacesReturned
            /\ checkResult = <<WalkFailedResult>>
    /\ InterfacesOK =>
        /\ Len(walks) = Len(baseOIDs)
        /\ \A k \in 1..Len(walks) : ~walks[k].err
    /\ ipc = "Exited" => isent = checkResult

\* The walk of the second table failed after the first had given a record,
\* and CRITICAL was sent.
C18_Witness ==
    /\ ipc = "Exited"
    /\ Len(walks) = 2
    /\ ~walks[1].err
    /\ walks[2].err
    /\ interfaces # <<>>
    /\ isent = <<WalkFailedResult>>

\* ------------------------------------------------------------------ C19
\* The calls that have returned after a session was opened for them.
ConnectedReturns == {k \in 1..Len(creturns) : creturns[k].connected}

\* C19: every call that connects opens one session of its own and has
\* closed it when it returns, whether its request succeeded or failed: at
\* most one session is open at any time, none while the caller is at a
\* step of its own (the sleep, the evaluation, the assembly, the report),
\* and a call whose Connect failed has opened no session and returns an
\* error with a nil result.
C19_SessionPerCall ==
    /\ opened - closed \in {0, 1}
    /\ opened - closed = 1 <=> cphase \in {"Request", "Deferred"}
    /\ cphase = "caller" =>
        /\ opened = Cardinality(ConnectedReturns)
        /\ closed = Cardinality(ConnectedReturns)
    /\ \A k \in 1..Len(creturns) :
        /\ ~creturns[k].connected =>
            /\ creturns[k].err
            /\ creturns[k].result = <<>>
            /\ creturns[k].latency = 0
        /\ creturns[k].err => creturns[k].result = <<>>
    /\ (cphase = "Return" /\ ~cret[1].connected) =>
        opened = Cardinality(ConnectedReturns)

\* The caller is at its report after a call whose Connect failed, a call
\* whose request failed and a call that succeeded, and no session is open.
C19_Witness ==
    /\ cphase = "caller"
    /\ cpos = Len(cscript)
    /\ opened = closed
    /\ \E k \in 1..Len(creturns) : ~creturns[k].connected
    /\ \E k \in 1..Len(creturns) : creturns[k].connected /\ creturns[k].err
    /\ \E k \in 1..Len(creturns) : ~creturns[k].err

\* ------------------------------------------------------------------ C20
\* The sections of the secondary collections in the order of their calls,
\* and the key of each in the output.
SecondarySections ==
    <<"Interfaces", "IPAddresses", "PhysicalEntities", "CPU", "Memory">>
OutputKey ==
    [Interfaces |-> "interfaces", IPAddresses |-> "ip_addresses",
     PhysicalEntities |-> "physical_entities", CPU |-> "cpu",
     Memory |-> "memory"]

\* CollectDeviceInventory has returned.
InventoryReturned == dpc \in {"Returned", "Exited", "Fatal"}

\* C20: CollectDeviceInventory returns an error and a nil result exactly
\* when collectSystemInfo failed, and then calls no other collector.
\* Otherwise it has called the five secondary collectors in order, whatever
\* failed among them, and returns no error and a result in which the
\* section of a collector that failed is empty and the section of a
\* collector that did not fail holds what it returned; the output has no
\* key for a failed section and the key of every section whose collector
\* returned a value.
C20_PartialFailure ==
    /\ inventoryErr <=> (collected # <<>> /\ collected[1].err)
    /\ InventoryReturned =>
        IF collected[1].err
        THEN inventory = <<>> /\ Len(collected) = 1
        ELSE /\ inventory # <<>>
             /\ Len(collected) = 1 + Len(SecondarySections)
             /\ collected[1].section = "SystemInfo"
             /\ inventory[1].SystemInfo = collected[1].value
             /\ \A k \in 1..Len(SecondarySections) :
                LET c == collected[k + 1] IN
                /\ c.section = SecondarySections[k]
                /\ c.err => inventory[1][c.section] = <<>>
                /\ ~c.err => inventory[1][c.section] = c.value
    /\ dpc = "Exited" =>
        \A k \in 1..Len(SecondarySections) :
            LET c == collected[k + 1] IN
            /\ c.err => OutputKey[c.section] \notin DOMAIN output[1]
            /\ (~c.err /\ c.value # <<>>) =>
                OutputKey[c.section] \in DOMAIN output[1]

\* The inventory was printed after the collections of the interfaces and
\* of the CPU had failed and those of the IP addresses, the physical
\* entities and the memory had returned values.
C20_Witness ==
    /\ dpc = "Exited"
    /\ collected[2].err
    /\ ~collected[3].err /\ collected[3].value # <<>>
    /\ ~collected[4].err /\ collected[4].value # <<>>
    /\ collected[5].err
    /\ ~collected[6].err /\ collected[6].value # <<>>
    /\ DOMAIN output[1] =
        {"system_info", "ip_addresses", "physical_entities", "memory"}

\* ---------------------------------------------- claims on the reported data
\* Link speeds a device may report instead of the one it did, in bits per
\* second (ifSpeed) and Mbit per second (ifHighSpeed).
SpeedVariants == {0, 1000000000}
HighSpeedVariants == {0, 1000}

\* The evaluation of the two samples main collected, with the speed of both
\* replaced and enablePerf given.
EvaluationWith(speed, highSpeed, enablePerf) ==
    DetermineInterfaceUsage(
        [measure1[1] EXCEPT !.Speed = speed, !.HighSpeed = highSpeed],
        [measure2[1] EXCEPT !.Speed = speed, !.HighSpeed = highSpeed],
        flags.warnIn, flags.warnOut, flags.critIn, flags.critOut, enablePerf)

\* Performance samples with their Max bound blanked.
WithoutMax(perf) == {[m EXCEPT !.Max = 0] : m \in perf}

\* C21: Speed, HighSpeed and enablePerf are used by DetermineInterfaceUsage
\* for reporting only: an evaluation that differs from the one made only in
\* these inputs returns the same state and the same message, and the speed
\* shows only as the Max bound of the performance samples.
C21_SpeedOnlyReported ==
    Evaluated =>
        \A e \in BOOLEAN :
            LET made == EvaluationWith(measure1[1].Speed,
                                       measure1[1].HighSpeed, e)
                madePerf == WithoutMax(made.perf)
            IN \A sp \in SpeedVariants, hs \in HighSpeedVariants :
                LET other == EvaluationWith(sp, hs, e) IN
                /\ other.kind = "result"
                /\ other.state = sent[1].state
                /\ other.message = sent[1].message
                /\ WithoutMax(other.perf) = madePerf
                /\ \A m \in other.perf : m.Max \in {0, sp}
                /\ ~e => other.perf = {}

C21_Witness ==
    /\ Evaluated
    /\ flags.enablePerfData
    /\ sent[1].state = Warning
    /\ \E m \in sent[1].perf :
            m.name = "hc_in" /\ m.Max = measure1[1].Speed /\ m.Max > 0
    /\ \E sp \in SpeedVariants :
            EvaluationWith(sp, 0, TRUE).perf # sent[1].perf

\* C22: whatever state DetermineInterfaceUsage returns, its message holds
\* the name of the first sample and, for each of In, Out, HCIn and HCOut,
\* the scaled number of the rate computed for it together with its unit.
C22_MessageShowsValues ==
    Evaluated =>
        /\ sent[1].state \in {OK, Warning, Critical}
        /\ sent[1].message.name = measure1[1].Name
        /\ sent[1].message.In = convertToScale(rates[1].in)
        /\ sent[1].message.Out = convertToScale(rates[1].out)
        /\ sent[1].message.HCIn = convertToScale(rates[1].hcIn)
        /\ sent[1].message.HCOut = convertToScale(rates[1].hcOut)
        /\ \A c \in {sent[1].message.In, sent[1].message.Out,
                      sent[1].message.HCIn, sent[1].message.HCOut} :
                c[2] \in {"bps", "Kbps", "Mbps", "Gbps"}

C22_Witness ==
    /\ Evaluated
    /\ sent[1].state = Critical
    /\ CitesOutbound
    /\ sent[1].message.name = "eth0"
    /\ sent[1].message.Out = <<80, "Kbps">>
    /\ sent[1].message.In = <<0, "bps">>

\* The inbound and outbound rates in bits per second, as the performance
\* samples of lines 162-165 give them.
BpsIn == {UMul(rates[1].in, 8), UMul(rates[1].hcIn, 8)}
BpsOut == {UMul(rates[1].out, 8), UMul(rates[1].hcOut, 8)}

\* C23: the thresholds are in bits per second and are compared with the
\* rate in bits per second: a direction one of whose rates in bps is above a
\* configured (non-zero) threshold triggers it, and one whose rates in bps
\* are all below it does not, whatever unit the message shows.
C23_ThresholdsInBps ==
    (Evaluated /\ NoCounterDecreased) =>
        /\ flags.critIn > 0 =>
            /\ (\E b \in BpsIn : b > flags.critIn) => InboundCritical
            /\ (\A b \in BpsIn : b < flags.critIn) => ~InboundCritical
        /\ flags.warnIn > 0 =>
            /\ (\E b \in BpsIn : b > flags.warnIn) => InboundWarning
            /\ (\A b \in BpsIn : b < flags.warnIn) => ~InboundWarning
        /\ flags.critOut > 0 =>
            /\ (\E b \in BpsOut : b > flags.critOut) => OutboundCritical
            /\ (\A b \in BpsOut : b < flags.critOut) => ~OutboundCritical
        /\ flags.warnOut > 0 =>
            /\ (\E b \in BpsOut : b > flags.warnOut) => OutboundWarning
            /\ (\A b \in BpsOut : b < flags.warnOut) => ~OutboundWarning

\* -------------------------------------------------- claims on check_sysdescr
\* CheckSysDescr has returned a result for the answer GetValue gave.
SysDescrReturned == sdpc \in {"Returned", "Exited"}

\* GetValue returned a packet holding the sysDescr as an octet string.
SysDescrRetrieved ==
    /\ sdAnswer # <<>>
    /\ ~sdAnswer[1].err
    /\ Len(sdAnswer[1].Variables) = 1
    /\ sdAnswer[1].Variables[1].type = "bytes"

\* The pattern given matches the sysDescr retrieved: "Cisco", "^Li", "x$",
\* "C.s" and "^$" written out, "(Cisco" being no regular expression.
PatternMatches ==
    LET d == sdAnswer[1].Variables[1].val
        p == sdFlags.sysDescrPattern
    IN \/ p \in {<<"C", "i", "s", "c", "o">>, <<"C", ".", "s">>}
            /\ d = <<"C", "i", "s", "c", "o">>
       \/ p \in {<<"^", "L", "i">>, <<"x", "$">>}
            /\ d = <<"L", "i", "n", "u", "x">>
       \/ p = <<"^", "$">> /\ d = <<>>

C25_LatencyWheneverRetrieved ==
    (SysDescrReturned /\ SysDescrRetrieved) =>
        IF sdFlags.enablePerfData
        THEN \E m \in sdResult[1].perf :
                m.name = "latency" /\ m.Value = sdAnswer[1].latency
        ELSE sdResult[1].perf = {}

\* ------------------------------------------------- claims on check_bgp_peers
\* The queries of the statuses of a peer that failed and that were answered.
FailedQueries == SelectSeq(bgpQueries, LAMBDA q : q.answer.err)
AnsweredQueries == SelectSeq(bgpQueries, LAMBDA q : ~q.answer.err)

\* C26: a transport failure is terminal: when the query of the statuses of
\* a peer has failed the check ends with CRITICAL, and never with OK over
\* the peers that are left.
C26_FailedQueryIsCritical ==
    (bpc = "Exited" /\ FailedQueries # <<>>) => bgpSent[1].state = Critical

\* C29: with the peer indices obtained, the report is CRITICAL exactly when
\* a collected peer has AdminStatus different from OperationalStatus, with
\* mismatched_peers the number of such peers, and otherwise OK with
\* total_peers the number of collected peers, the collected peers being
\* those whose statuses were answered; when the indices are not obtained
\* the report is CRITICAL and no peer is queried.
C29_MismatchReport ==
    bpc = "Exited" =>
        /\ Len(bgpSent) = 1
        /\ IF indexResult[1].err
           THEN /\ bgpSent[1].state = Critical
                /\ peers = <<>>
                /\ bgpQueries = <<>>
           ELSE
             LET n == Cardinality(
                        {i \in 1..Len(peers) :
                            peers[i].AdminStatus # peers[i].OperationalStatus})
             IN /\ Len(peers) = Len(AnsweredQueries)
                /\ \A i \in 1..Len(peers) :
                     LET v == AnsweredQueries[i].answer.Variables IN
                     /\ peers[i].AdminStatus = v[1].val
                     /\ peers[i].OperationalStatus = v[2].val
                /\ bgpSent[1].state = Critical <=> n > 0
                /\ n > 0 =>
                     bgpSent[1].perf = {[name |-> "mismatched_peers",
                                         Value |-> n, UnitOM |-> "count"]}
                /\ n = 0 =>
                     /\ bgpSent[1].state = OK
                     /\ bgpSent[1].perf = {[name |-> "total_peers",
                                            Value |-> Len(peers),
                                            UnitOM |-> "count"]}

C29_Witness ==
    /\ bpc = "Exited"
    /\ Len(peers) = 2
    /\ peers[1].AdminStatus = peers[1].OperationalStatus
    /\ peers[2].AdminStatus # peers[2].OperationalStatus
    /\ bgpSent[1].state = Critical
    /\ \E m \in bgpSent[1].perf : m.name = "mismatched_peers" /\ m.Value = 1

\* ------------------------------------------------ claims on device_inventory
\* What the collector of a section has returned, its walk having succeeded.
ReturnedBy(section) ==
    LET k == CHOOSE k \in 1..Len(collected) : collected[k].section = section
    IN  collected[k].value

\* C27: collectInterfaces returns one Interface per non-zero trailing
\* index of the walk of the interface table, with Index that trailing
\* index and with the description set from the value walked for ifDescr
\* of that index, whatever the order of the walk.
C27_InterfacePerIndex ==
    \A w \in 1..Len(walked) :
        walked[w].section = "Interfaces" =>
            LET pairs == walked[w].order
                got == ReturnedBy("Interfaces")
                indices == {parseInterfaceIndex(Suffix(pairs[k].oid)) :
                                k \in 1..Len(pairs)} \ {0}
            IN /\ {got[i].Index : i \in 1..Len(got)} = indices
               /\ Len(got) = Cardinality(indices)
               /\ \A k \in 1..Len(pairs) :
                    (/\ Column(pairs[k].oid) = OID.IfDescr
                     /\ pairs[k].value.type = "bytes") =>
                        \E i \in 1..Len(got) :
                            /\ got[i].Index
                                = parseInterfaceIndex(Suffix(pairs[k].oid))
                            /\ got[i].Description = pairs[k].value.val

\* Values an earlier call of collectIPAddresses in the same process can
\* have left in currentIfIndex.
LeftByEarlierCall == {0, 3}

\* The pairs of a walk result, without the order they were ranged in.
PairsOf(order) == {order[k] : k \in 1..Len(order)}

C30_Step ==
    \A p \in pending \ pending' :
        (ipc = "Range" /\ WellTyped(p) /\ ~Atoi(Suffix(p.oid)).err) =>
            LET index == Atoi(Suffix(p.oid)).val
                before == IF index \in DOMAIN interfaces
                          THEN interfaces[index] ELSE InterfaceDetailZero
                after == interfaces'[index]
                named == FieldNamedBy(Column(p.oid))
            IN /\ \A f \in DOMAIN after \ {named} : after[f] = before[f]
               /\ ExpectedType(Column(p.oid)) = "uint" =>
                    after[named] = p.value.val

C30_ExactlyTheNamedField == [][C30_Step]_vars

====
